---- MODULE Spec2Model ----
(***************************************************************************)
(* Model of the inline link resolver of markdown-it.rs:                    *)
(*   src/src/generics/inline/full_link.rs   link rule, label scanner,      *)
(*                                           destination/title parsers     *)
(*   src/src/plugins/cmark/inline/autolink.rs  autolink rule               *)
(*   src/src/lib.rs                          validate_link, normalize_link,*)
(*                                           normalize_text, max_nesting   *)
(* The source is a sequence of one-character strings; offsets are the      *)
(* 0-based byte offsets of the code (every modelled character is ASCII, so *)
(* len_utf8 is 1).  Option values are sequences: None is <<>>, Some(x) is  *)
(* <<x>>.                                                                   *)
(***************************************************************************)
EXTENDS Integers, Sequences, FiniteSets, TLC

\* ------------------------------------------------------------------------
\* Strings
\* ------------------------------------------------------------------------

\* str[i] for a 0-based byte offset i
Ch(s, i) == s[i + 1]

\* &str[a..b]
Slice(s, a, b) == SubSeq(s, a + 1, b)

None == <<>>

Some(x) == <<x>>

UpperLetters == <<"A","B","C","D","E","F","G","H","I","J","K","L","M",
                  "N","O","P","Q","R","S","T","U","V","W","X","Y","Z">>

LowerLetters == <<"a","b","c","d","e","f","g","h","i","j","k","l","m",
                  "n","o","p","q","r","s","t","u","v","w","x","y","z">>

Digits == {"0","1","2","3","4","5","6","7","8","9"}

Range(s) == {s[i] : i \in 1..Len(s)}

\* the (?i) flag of the regexes: ASCII case folding of one character
ToLower(c) ==
    IF c \in Range(UpperLetters)
    THEN LowerLetters[CHOOSE i \in 1..Len(UpperLetters) : UpperLetters[i] = c]
    ELSE c

\* (?i)^p : p is lower case
HasPrefixCI(s, p) ==
    /\ Len(s) >= Len(p)
    /\ \A i \in 1..Len(p) : ToLower(s[i]) = p[i]

\* ------------------------------------------------------------------------
\* lib.rs: the host hooks
\* ------------------------------------------------------------------------

BadProtos == { <<"v","b","s","c","r","i","p","t",":">>,
               <<"j","a","v","a","s","c","r","i","p","t",":">>,
               <<"f","i","l","e",":">>,
               <<"d","a","t","a",":">> }

GoodDataPrefixes == { <<"d","a","t","a",":","i","m","a","g","e","/","g","i","f",";">>,
                      <<"d","a","t","a",":","i","m","a","g","e","/","p","n","g",";">>,
                      <<"d","a","t","a",":","i","m","a","g","e","/","j","p","e","g",";">>,
                      <<"d","a","t","a",":","i","m","a","g","e","/","w","e","b","p",";">> }

BAD_PROTO_RE(s) == \E p \in BadProtos : HasPrefixCI(s, p)

GOOD_DATA_RE(s) == \E p \in GoodDataPrefixes : HasPrefixCI(s, p)

\* the mutant of validate_link: the data:image exception admits everything
validate_link_open(s) == TRUE

validate_link(s) == ~BAD_PROTO_RE(s) \/ GOOD_DATA_RE(s)

\* the set ASCII of normalize_link
NormalizeSafe == {";","/","?",":","@","&","=","+","$",",","-","_",".","!",
                  "~","*","'","(",")","#"}

HexDigits == Digits \cup {"a","b","c","d","e","f","A","B","C","D","E","F"}

\* the two hex digits of the byte of an ASCII character that is encoded
HexOf(c) ==
    CASE c = " "  -> <<"2","0">>
      [] c = "\t" -> <<"0","9">>
      [] c = "\n" -> <<"0","A">>
      [] c = "\"" -> <<"2","2">>
      [] c = "%"  -> <<"2","5">>
      [] c = "<"  -> <<"3","C">>
      [] c = ">"  -> <<"3","E">>
      [] c = "["  -> <<"5","B">>
      [] c = "\\" -> <<"5","C">>
      [] c = "]"  -> <<"5","D">>
      [] OTHER    -> <<"0","0">>

IsAlnum(c) == c \in Range(UpperLetters) \cup Range(LowerLetters) \cup Digits

RECURSIVE encode(_, _)
\* mdurl::encode(str, ASCII, true) from offset i on: alphanumerics and the
\* safe set are kept, an existing %XX escape is kept, the rest is encoded
encode(s, i) ==
    IF i >= Len(s) THEN <<>>
    ELSE LET c == Ch(s, i) IN
         IF IsAlnum(c) \/ c \in NormalizeSafe
         THEN <<c>> \o encode(s, i + 1)
         ELSE IF /\ c = "%"
                 /\ i + 2 < Len(s)
                 /\ Ch(s, i + 1) \in HexDigits
                 /\ Ch(s, i + 2) \in HexDigits
         THEN <<c, Ch(s, i + 1), Ch(s, i + 2)>> \o encode(s, i + 3)
         ELSE <<"%">> \o HexOf(c) \o encode(s, i + 1)

normalize_link(s) == encode(s, 0)

normalize_link_text(s) == s

RECURSIVE replace_crlf(_, _)
\* .replace("\r\n", "\n") from offset i on
replace_crlf(s, i) ==
    IF i >= Len(s) THEN <<>>
    ELSE IF Ch(s, i) = "\r" /\ i + 1 < Len(s) /\ Ch(s, i + 1) = "\n"
    THEN <<"\n">> \o replace_crlf(s, i + 2)
    ELSE <<Ch(s, i)>> \o replace_crlf(s, i + 1)

\* .replace(from, to) for one character
replace_char(s, from, to) ==
    [i \in 1..Len(s) |-> IF s[i] = from THEN to ELSE s[i]]

\* the mutant of normalize_text: the lone '\r' is replaced first
normalize_text_swapped(s) ==
    IF \E i \in 1..Len(s) : s[i] \in {"\r", "NUL"}
    THEN replace_char(replace_crlf(replace_char(s, "\r", "\n"), 0),
                      "NUL", "U+FFFD")
    ELSE s

\* normalize_text: "NUL" is '\0' and "U+FFFD" the replacement character
normalize_text(s) ==
    IF \E i \in 1..Len(s) : s[i] \in {"\r", "NUL"}
    THEN replace_char(replace_char(replace_crlf(s, 0), "\r", "\n"),
                      "NUL", "U+FFFD")
    ELSE s

\* ------------------------------------------------------------------------
\* common::utils::unescape_all: backslash escapes of ASCII punctuation
\* (the modelled alphabet holds no '&', so no entity is ever decoded)
\* ------------------------------------------------------------------------

AsciiPunct == {"!","\"","#","$","%","&","'","(",")","*","+",",","-",".","/",
               ":",";","<","=",">","?","@","[","\\","]","^","_","{","|",
               "}","~"}

RECURSIVE unescape_from(_, _)
unescape_from(s, i) ==
    IF i >= Len(s) THEN <<>>
    ELSE IF Ch(s, i) = "\\" /\ i + 1 < Len(s) /\ Ch(s, i + 1) \in AsciiPunct
    THEN <<Ch(s, i + 1)>> \o unescape_from(s, i + 2)
    ELSE <<Ch(s, i)>> \o unescape_from(s, i + 1)

\* a string without a backslash has nothing to unescape
unescape_all(s) == IF "\\" \notin Range(s) THEN s ELSE unescape_from(s, 0)

\* ------------------------------------------------------------------------
\* full_link.rs: parse_link_destination and parse_link_title
\* ------------------------------------------------------------------------

\* Option<ParseLinkFragmentResult>
NoFragment == [ok |-> FALSE, pos |-> 0, lines |-> 0, str |-> <<>>]

Fragment(p, l, s) == [ok |-> TRUE, pos |-> p, lines |-> l, str |-> s]

\* the nesting cap of the bare destination
MaxParenLevel == 32

\* space and the ASCII control characters (NUL to space, DEL)
IsSpaceOrControl(c) == c \in {" ", "\t", "\n", "\r", "NUL", "DEL"}

RECURSIVE dest_angle(_, _, _, _)
\* the loop of the `<...>` form; pos is the offset of the next character
dest_angle(str, start, pos, max) ==
    IF pos >= max THEN NoFragment
    ELSE LET c == Ch(str, pos) IN
         IF c \in {"\n", "<"} THEN NoFragment
         ELSE IF c = ">"
         THEN Fragment(pos + 1, 0, unescape_all(Slice(str, start + 1, pos)))
         ELSE IF c = "\\"
         THEN IF pos + 1 >= max THEN NoFragment
              ELSE dest_angle(str, start, pos + 2, max)
         ELSE dest_angle(str, start, pos + 1, max)

RECURSIVE dest_bare_uncapped(_, _, _, _, _)
\* the mutant of dest_bare: the parenthesis level has no cap
dest_bare_uncapped(str, start, pos, level, max) ==
    LET stop == IF level # 0 THEN NoFragment
                ELSE Fragment(pos, 0, unescape_all(Slice(str, start, pos)))
        more == pos + 1 < max /\ Ch(str, pos + 1) # " "
    IN CASE pos >= max \/ IsSpaceOrControl(Ch(str, pos)) -> stop
         [] Ch(str, pos) = "\\" ->
                IF more THEN dest_bare_uncapped(str, start, pos + 2, level, max) ELSE stop
         [] Ch(str, pos) = "(" ->
                dest_bare_uncapped(str, start, pos + 1, level + 1, max)
         [] Ch(str, pos) = ")" ->
                IF level = 0 THEN stop
                ELSE dest_bare_uncapped(str, start, pos + 1, level - 1, max)
         [] OTHER -> dest_bare_uncapped(str, start, pos + 1, level, max)

RECURSIVE dest_bare(_, _, _, _, _)
\* the loop of the bare form, one arm of the match for each case, then the
\* level check after it
dest_bare(str, start, pos, level, max) ==
    LET stop == IF level # 0 THEN NoFragment
                ELSE Fragment(pos, 0, unescape_all(Slice(str, start, pos)))
        more == pos + 1 < max /\ Ch(str, pos + 1) # " "
    IN CASE pos >= max \/ IsSpaceOrControl(Ch(str, pos)) -> stop
         [] Ch(str, pos) = "\\" ->
                IF more THEN dest_bare(str, start, pos + 2, level, max) ELSE stop
         [] Ch(str, pos) = "(" ->
                IF level + 1 > MaxParenLevel THEN NoFragment
                ELSE dest_bare(str, start, pos + 1, level + 1, max)
         [] Ch(str, pos) = ")" ->
                IF level = 0 THEN stop
                ELSE dest_bare(str, start, pos + 1, level - 1, max)
         [] OTHER -> dest_bare(str, start, pos + 1, level, max)

parse_link_destination(str, start, max) ==
    IF start < max /\ Ch(str, start) = "<"
    THEN dest_angle(str, start, start + 1, max)
    ELSE dest_bare(str, start, start, 0, max)

RECURSIVE title_loop(_, _, _, _, _, _)
title_loop(str, start, pos, lines, marker, max) ==
    IF pos >= max THEN NoFragment
    ELSE LET c == Ch(str, pos) IN
         IF c = marker
         THEN Fragment(pos + 1, lines, unescape_all(Slice(str, start + 1, pos)))
         ELSE IF c = "(" /\ marker = ")" THEN NoFragment
         ELSE IF c = "\n"
         THEN title_loop(str, start, pos + 1, lines + 1, marker, max)
         ELSE IF c = "\\"
         THEN IF pos + 1 >= max THEN NoFragment
              ELSE title_loop(str, start, pos + 2, lines, marker, max)
         ELSE title_loop(str, start, pos + 1, lines, marker, max)

parse_link_title(str, start, max) ==
    IF start >= max THEN NoFragment
    ELSE LET c == Ch(str, start) IN
         IF c = "\"" THEN title_loop(str, start, start + 1, 0, "\"", max)
         ELSE IF c = "'" THEN title_loop(str, start, start + 1, 0, "'", max)
         ELSE IF c = "(" THEN title_loop(str, start, start + 1, 0, ")", max)
         ELSE NoFragment

\* ------------------------------------------------------------------------
\* autolink.rs: the two regexes and get_link
\* ------------------------------------------------------------------------

IsLetter(c) == c \in Range(UpperLetters) \cup Range(LowerLetters)

\* ^([a-zA-Z][a-zA-Z0-9+.\-]{1,31}):([^<>\x00-\x20]*)$
AUTOLINK_RE(url) ==
    \E k \in 2..32 :
        /\ k < Len(url)
        /\ Ch(url, k) = ":"
        /\ IsLetter(Ch(url, 0))
        /\ \A i \in 1..(k - 1) : IsAlnum(Ch(url, i)) \/ Ch(url, i) \in {"+", ".", "-"}
        /\ \A i \in (k + 1)..(Len(url) - 1) :
               Ch(url, i) \notin {"<", ">", " ", "\t", "\n", "\r", "NUL"}

EmailLocalChars == {".","!","#","$","%","&","'","*","+","/","=","?","^","_",
                    "{","|","}","~","-"}

\* one label of the domain: [a-zA-Z0-9](?:[a-zA-Z0-9-]{0,61}[a-zA-Z0-9])?
IsDomainLabel(s) ==
    /\ Len(s) \in 1..63
    /\ IsAlnum(s[1])
    /\ IsAlnum(s[Len(s)])
    /\ \A i \in 1..Len(s) : IsAlnum(s[i]) \/ s[i] = "-"

RECURSIVE IsDomain(_)
\* label(\.label)*
IsDomain(s) ==
    \/ IsDomainLabel(s)
    \/ \E k \in 2..(Len(s) - 1) :
          /\ s[k] = "."
          /\ IsDomainLabel(SubSeq(s, 1, k - 1))
          /\ IsDomain(SubSeq(s, k + 1, Len(s)))

EMAIL_RE(url) ==
    \E k \in 2..(Len(url) - 1) :
        /\ url[k] = "@"
        /\ \A i \in 1..(k - 1) : IsAlnum(url[i]) \/ url[i] \in EmailLocalChars
        /\ IsDomain(SubSeq(url, k + 1, Len(url)))

Mailto == <<"m","a","i","l","t","o",":">>

NoLink == [ok |-> FALSE, len |-> 0, url |-> <<>>]

RECURSIVE autolink_close(_, _, _)
\* the loop of get_link: the offset of the closing '>', or -1
autolink_close(str, q, max) ==
    IF q >= max \/ Ch(str, q) = "<" THEN -1
    ELSE IF Ch(str, q) = ">" THEN q
    ELSE autolink_close(str, q + 1, max)

\* get_link with the state's src, pos and pos_max
get_link(str, p, max) ==
    IF Ch(str, p) # "<" THEN NoLink
    ELSE LET q == autolink_close(str, p + 1, max) IN
         IF q < 0 THEN NoLink
         ELSE LET url         == Slice(str, p + 1, q)
                  is_autolink == AUTOLINK_RE(url)
                  is_email    == EMAIL_RE(url)
                  full_url    == IF is_autolink THEN normalize_link(url)
                                 ELSE normalize_link(Mailto \o url)
              IN IF ~is_autolink /\ ~is_email THEN NoLink
                 ELSE IF ~validate_link(full_url) THEN NoLink
                 ELSE [ok |-> TRUE, len |-> q + 1 - p, url |-> full_url]

\* ------------------------------------------------------------------------
\* Nodes
\* ------------------------------------------------------------------------

MkNode(k, h, t, a, b, ch, c) ==
    [kind |-> k, href |-> h, title |-> t, start |-> a, end |-> b,
     children |-> ch, content |-> c]

Text(c, a, b) == MkNode("text", None, None, a, b, <<>>, c)

\* the factory of the rule: Link for add::<false>, Image for
\* add_prefix::<'!', true>
Factory(en, h, t) == MkNode(IF en THEN "image" ELSE "link", h, t, 0, 0, <<>>, <<>>)

\* ------------------------------------------------------------------------
\* The reference map
\* ------------------------------------------------------------------------

IsWhite(c) == c \in {" ", "\t", "\n", "\r"}

RECURSIVE collapse(_, _, _)
\* lower-cases, turns each run of whitespace into one space and drops the
\* runs at both ends; pending says a run was seen after some text
collapse(s, i, pending) ==
    IF i >= Len(s) THEN <<>>
    ELSE IF IsWhite(Ch(s, i)) THEN collapse(s, i + 1, TRUE)
    ELSE (IF pending THEN <<" ">> ELSE <<>>)
         \o <<ToLower(Ch(s, i))>> \o collapse(s, i + 1, FALSE)

RECURSIVE first_text(_, _)
first_text(s, i) ==
    IF i >= Len(s) THEN i
    ELSE IF IsWhite(Ch(s, i)) THEN first_text(s, i + 1) ELSE i

\* ReferenceMapKey::new
ReferenceMapKey(label) == collapse(label, first_text(label, 0), FALSE)

\* ------------------------------------------------------------------------
\* Inputs
\* ------------------------------------------------------------------------

\* the longest input of the exhaustive part of Inputs
MaxLen == 4

\* the characters of the exhaustive part of Inputs
Alphabet == {"[", "]", "(", ")", "a", "!"}

\* lib.rs: MarkdownIt::new sets max_nesting
max_nesting == 100

\* [a [b](c) d](e)
NestedInLink == <<"[","a"," ","[","b","]","(","c",")"," ","d","]","(","e",")">>

\* ![a [b](c) d](e)
NestedInImage == <<"!","[","a"," ","[","b","]","(","c",")"," ","d","]","(","e",")">>

\* [a ![b [c](d) e](f) g](h)
ImageInLink == <<"[","a"," ","!","[","b"," ","[","c","]","(","d",")"," ","e","]","(","f",")"," ","g","]","(","h",")">>

\* [f](/b "z")
TitledLink == <<"[","f","]","(","/","b"," ","\"","z","\"",")">>

\* [f](</b> "z")
AngleLink == <<"[","f","]","(","<","/","b",">"," ","\"","z","\"",")">>

\* [f](/b(z(q)))
ParenLink == <<"[","f","]","(","/","b","(","z","(","q",")",")",")">>

\* [a][b]
FullRef == <<"[","a","]","[","b","]">>

\* [a][]
CollapsedRef == <<"[","a","]","[","]">>

\* [a] b
ShortcutRef == <<"[","a","]"," ","b">>

\* [A][B]
UpperRef == <<"[","A","]","[","B","]">>

\* [a](b
NoCloseParen == <<"[","a","]","(","b">>

\* [b](c "d
NoCloseTitle == <<"[","b","]","(","c"," ","\"","d">>

\* [a](b)[b](a)
InlineAndRef == <<"[","a","]","(","b",")","[","b","]","(","a",")">>

\* [a](javascript:x)
BadScheme == <<"[","a","]","(","j","a","v","a","s","c","r","i","p","t",":","x",")">>

\* [b](<JavaScript:x> "t")
BadSchemeAngle == <<"[","b","]","(","<","J","a","v","a","S","c","r","i","p","t",":","x",">"," ","\"","t","\"",")">>

\* [a](data:image/png;x)
GoodData == <<"[","a","]","(","d","a","t","a",":","i","m","a","g","e","/","p","n","g",";","x",")">>

\* [a](data:x)
BadData == <<"[","a","]","(","d","a","t","a",":","x",")">>

\* [a][x [b](c)]
LinkInSecondLabel == <<"[","a","]","[","x"," ","[","b","]","(","c",")","]">>

\* [[a] [b]](c)
RefInLabel == <<"[","[","a","]"," ","[","b","]","]","(","c",")">>

\* <ab:c>
AutolinkOk == <<"<","a","b",":","c",">">>

\* <file:c>
AutolinkBad == <<"<","f","i","l","e",":","c",">">>

\* <a@b.c>
AutolinkMail == <<"<","a","@","b",".","c",">">>

\* [<ab:c>](d)
AutolinkInLabel == <<"[","<","a","b",":","c",">","]","(","d",")">>

\* <a b>[a]
NotAutolink == <<"<","a"," ","b",">","[","a","]">>

\* max_nesting + 1 opening brackets
DeepBrackets == [i \in 1..(max_nesting + 1) |-> "["]

Scenarios == {NestedInLink, NestedInImage, ImageInLink, TitledLink,
              AngleLink, ParenLink, FullRef, CollapsedRef,
              ShortcutRef, UpperRef, NoCloseParen, NoCloseTitle,
              InlineAndRef, BadScheme, BadSchemeAngle, GoodData,
              BadData, LinkInSecondLabel, RefInLabel, AutolinkOk,
              AutolinkBad, AutolinkMail, AutolinkInLabel, NotAutolink,
              DeepBrackets}

\* the most pieces of an input of the composed part of Inputs
MaxPieces == 5

\* the pieces of the composed part of Inputs: [  ![  a  ]  ]()
Pieces == { <<"[">>, <<"!", "[">>, <<"a">>, <<"]">>, <<"]", "(", ")">> }

RECURSIVE Concat(_)
Concat(ps) == IF ps = <<>> THEN <<>> ELSE Head(ps) \o Concat(Tail(ps))

Inputs ==
    Scenarios
        \cup UNION {[1..k -> Alphabet] : k \in 0..MaxLen}
        \cup {Concat(ps) : ps \in UNION {[1..k -> Pieces] : k \in 0..MaxPieces}}

\* a reference of the block phase's map
Ref(k, d, t) == [key |-> k, destination |-> d, title |-> t]

RefA == Ref(<<"a">>, <<"/", "x">>, Some(<<"y">>))

RefB == Ref(<<"b">>, <<"/", "z">>, None)

\* root_env holds no ReferenceMap, or a map defining a, or one defining b
RefMaps == { [present |-> FALSE, defs |-> {}],
             [present |-> TRUE, defs |-> {RefA}],
             [present |-> TRUE, defs |-> {RefB}] }

\* ------------------------------------------------------------------------
\* The inline scan: InlineState, inline_env and the call stack
\* ------------------------------------------------------------------------

VARIABLES
    src,        \* state.src
    pos_max,    \* state.pos_max
    refs,       \* root_env: the ReferenceMap, when there is one
    pos,        \* state.pos
    node,       \* state.node.children
    seen,       \* inline_env holds SeenLinks
    cache,      \* inline_env: LinkLabelScanCache, by opening-bracket offset
    stack,      \* the calls of rule/parse_link and parse_link_label in progress
    ret,        \* the value the call that just returned hands to its caller
    scans,      \* per offset, how often the loop of parse_link_label started
    removals,   \* per offset, how often parse_link removed the cache entry
    panic,      \* an unwrap() of parse_link met None
    pc,         \* "tokenize" while inline.tokenize runs, then "done"
    norm_in,    \* the text handed to the first normalize_text
    norm_src,   \* the text as the last normalize_text returned it
    norm_log,   \* what each normalize_text call returned, in order
    frag_call,  \* the call of a sub-parser: its name, str, start and max
    frag_res,   \* what that call returned
    trailing_text, \* state.trailing_text: the text since the last token
    link_level, \* state.link_level
    last_rule,  \* the rule that ran last, what its check and its run returned
    tree_in,    \* the children of the Root node when the driver is called
    tree,       \* the children of the Root node the inline driver walks
    data_env,   \* the env field of the Root node
    walk_env,   \* the env the driver holds while it walks
    walk_stack, \* the walk_recursive calls in progress
    walk_log    \* the children the walk has processed, in order

\* the sub-parsers on their own
frag_vars == <<frag_call, frag_res>>

\* the single-step rules
rule_vars == <<trailing_text, link_level, last_rule>>

\* the inline driver
walk_vars == <<tree_in, tree, data_env, walk_env, walk_stack, walk_log>>

vars == <<src, pos_max, refs, pos, node, seen, cache, stack, ret, scans,
          removals, panic, pc, norm_in, norm_src, norm_log, frag_vars,
          rule_vars, walk_vars>>

\* a value of LinkLabelScanCache: no entry, None, or Some((children, end))
AbsentEntry == [tag |-> "absent", nodes |-> <<>>, end |-> 0]

NoneEntry == [tag |-> "none", nodes |-> <<>>, end |-> 0]

SomeEntry(ns, e) == [tag |-> "some", nodes |-> ns, end |-> e]

\* ParseLinkResult
NoResult == [nodes |-> <<>>, href |-> None, title |-> None, end |-> 0]

Result(ns, h, t, e) == [nodes |-> ns, href |-> h, title |-> t, end |-> e]

\* nothing returned and not yet consumed
NoRet == [kind |-> "none", val |-> None, form |-> "none", en |-> FALSE,
          lpos |-> 0, label_end |-> 0, x |-> None, res |-> NoResult]

\* the Option<usize> parse_link_label returns
LabelRet(v) == [NoRet EXCEPT !.kind = "label", !.val = v]

\* the Option<usize> rule returns, with the ParseLinkResult behind it and the
\* locals of parse_link: form is "inline", "ref", "miss" or "nolabel"
RuleRet(v, form, f, x, r) ==
    [kind |-> "rule", val |-> v, form |-> form, en |-> f.en,
     lpos |-> f.start + f.offset, label_end |-> f.label_end, x |-> x, res |-> r]

\* the frame of a parse_link_label call inside its loop
LabelFrame(start, en, oldroot, oldseenlinks, old_pos) ==
    [kind |-> "label", start |-> start, en |-> en, oldroot |-> oldroot,
     oldseenlinks |-> oldseenlinks, old_pos |-> old_pos, level |-> 1,
     ch |-> "", offset |-> 0, label_end |-> 0, phase |-> ""]

\* the frame of a rule call, inside parse_link
LinkFrame(start, offset, en) ==
    [kind |-> "link", start |-> start, en |-> en, oldroot |-> <<>>,
     oldseenlinks |-> FALSE, old_pos |-> 0, level |-> 0,
     ch |-> "", offset |-> offset, label_end |-> 0, phase |-> "label1"]

\* the state the operators below transform
Cur == [pos |-> pos, node |-> node, seen |-> seen, cache |-> cache,
        stack |-> stack, ret |-> ret, scans |-> scans,
        removals |-> removals, panic |-> panic]

Set(s) ==
    /\ pos' = s.pos
    /\ node' = s.node
    /\ seen' = s.seen
    /\ cache' = s.cache
    /\ stack' = s.stack
    /\ ret' = s.ret
    /\ scans' = s.scans
    /\ removals' = s.removals
    /\ panic' = s.panic

Top(s) == s.stack[Len(s.stack)]

Pop(st) == SubSeq(st, 1, Len(st) - 1)

\* ------------------------------------------------------------------------
\* full_link.rs: parse_link_label
\* ------------------------------------------------------------------------

\* the mutant of label_finish: it restores SeenLinks to its value at the call
label_finish_restoring(s, found) ==
    LET f == Top(s) IN
    [s EXCEPT !.cache[f.start] = IF found THEN SomeEntry(s.node, s.pos)
                                 ELSE NoneEntry,
              !.pos = f.old_pos,
              !.node = f.oldroot,
              !.seen = f.oldseenlinks,
              !.stack = Pop(@),
              !.ret = LabelRet(IF found THEN Some(s.pos) ELSE None)]

\* the mutant of label_finish: the node of the probe is not swapped back
label_finish_unrestored(s, found) ==
    LET f == Top(s) IN
    [s EXCEPT !.cache[f.start] = IF found THEN SomeEntry(s.node, s.pos)
                                 ELSE NoneEntry,
              !.pos = f.old_pos,
              !.seen = IF f.oldseenlinks THEN TRUE ELSE @,
              !.stack = Pop(@),
              !.ret = LabelRet(IF found THEN Some(s.pos) ELSE None)]

\* after the loop: the cache is filled, pos and node are restored, SeenLinks
\* is inserted again when it was there at the call
label_finish(s, found) ==
    LET f == Top(s) IN
    [s EXCEPT !.cache[f.start] = IF found THEN SomeEntry(s.node, s.pos)
                                 ELSE NoneEntry,
              !.pos = f.old_pos,
              !.node = f.oldroot,
              !.seen = IF f.oldseenlinks THEN TRUE ELSE @,
              !.stack = Pop(@),
              !.ret = LabelRet(IF found THEN Some(s.pos) ELSE None)]

\* the mutant of after_token: the loop does not stop on SeenLinks
after_token_nested(s, nontext) ==
    IF s.stack = <<>> THEN s
    ELSE IF ~nontext /\ Top(s).ch = "["
    THEN [s EXCEPT !.stack[Len(s.stack)].level = @ + 1]
    ELSE s

\* what follows a tokenize_one step: nothing in inline.tokenize; in the loop
\* of parse_link_label the SeenLinks check and the level of a text '['
after_token(s, nontext) ==
    IF s.stack = <<>> THEN s
    ELSE IF ~Top(s).en /\ s.seen THEN label_finish(s, FALSE)
    ELSE IF ~nontext /\ Top(s).ch = "["
    THEN [s EXCEPT !.stack[Len(s.stack)].level = @ + 1]
    ELSE s

\* the mutant of parse_link_label: the cache is not consulted
parse_link_label_uncached(s, start, en) ==
    [s EXCEPT !.stack = Append(@, LabelFrame(start, en, s.node, s.seen, s.pos)),
              !.node = <<>>,
              !.seen = FALSE,
              !.pos = start + 1,
              !.scans[start] = @ + 1,
              !.ret = NoRet]

\* the call: a cache entry answers it, else the loop starts on a fresh node
parse_link_label(s, start, en) ==
    IF s.cache[start].tag # "absent"
    THEN [s EXCEPT !.ret = LabelRet(IF s.cache[start].tag = "some"
                                    THEN Some(s.cache[start].end) ELSE None)]
    ELSE [s EXCEPT !.stack = Append(@, LabelFrame(start, en, s.node, s.seen, s.pos)),
                   !.node = <<>>,
                   !.seen = FALSE,
                   !.pos = start + 1,
                   !.scans[start] = @ + 1,
                   !.ret = NoRet]

\* ------------------------------------------------------------------------
\* full_link.rs: rule and parse_link
\* ------------------------------------------------------------------------

SetTop(s, f) == [s EXCEPT !.stack[Len(s.stack)] = f]

Panic(s) == [s EXCEPT !.panic = TRUE]

\* the mutant of rule_some: SeenLinks is not inserted
rule_some_unseen(s, form, x, r) ==
    LET f == Top(s)
        n == [Factory(f.en, r.href, r.title)
                 EXCEPT !.start = f.start, !.end = r.end, !.children = r.nodes]
    IN [s EXCEPT !.node = Append(@, n),
                 !.stack = Pop(@),
                 !.ret = RuleRet(Some(r.end - s.pos), form, f, x, r)]

\* rule, parse_link having returned Some(r): the node is pushed, SeenLinks is
\* inserted unless nesting is enabled, and end - state.pos is returned
rule_some(s, form, x, r) ==
    LET f == Top(s)
        n == [Factory(f.en, r.href, r.title)
                 EXCEPT !.start = f.start, !.end = r.end, !.children = r.nodes]
    IN [s EXCEPT !.node = Append(@, n),
                 !.seen = IF ~f.en THEN TRUE ELSE @,
                 !.stack = Pop(@),
                 !.ret = RuleRet(Some(r.end - s.pos), form, f, x, r)]

\* rule, parse_link having returned None
rule_none(s, form, x) ==
    [s EXCEPT !.stack = Pop(@),
              !.ret = RuleRet(None, form, Top(s), x, NoResult)]

RECURSIVE skip_spaces(_, _, _)
\* while let Some(' ' | '\t' | '\n') = chars.next() { pos += 1 }
skip_spaces(str, p, max) ==
    IF p < max /\ Ch(str, p) \in {" ", "\t", "\n"}
    THEN skip_spaces(str, p + 1, max)
    ELSE p

NoInline == [ok |-> FALSE, href |-> None, title |-> None, end |-> 0]

\* the mutant of inline_form: a rejected destination is still skipped
inline_form_skipping(str, label_end, max) ==
    LET p0 == label_end + 1 IN
    IF ~(p0 < max /\ Ch(str, p0) = "(") THEN NoInline
    ELSE LET p1    == skip_spaces(str, p0 + 1, max)
             res   == parse_link_destination(str, p1, max)
             cand  == normalize_link(res.str)
             valid == res.ok /\ validate_link(cand)
             p2    == IF res.ok THEN res.pos ELSE p1
             p3    == IF res.ok THEN skip_spaces(str, p2, max) ELSE p2
             tres  == IF res.ok THEN parse_link_title(str, p3, max) ELSE NoFragment
             p4    == IF tres.ok THEN skip_spaces(str, tres.pos, max) ELSE p3
         IN IF p4 < max /\ Ch(str, p4) = ")"
            THEN [ok |-> TRUE,
                  href |-> IF valid THEN Some(cand) ELSE None,
                  title |-> IF tres.ok THEN Some(tres.str) ELSE None,
                  end |-> p4 + 1]
            ELSE NoInline

\* the inline form of parse_link, from the character after the label's ']'
\* to the commit: whether it commits, and with which href, title and end
inline_form(str, label_end, max) ==
    LET p0 == label_end + 1 IN
    IF ~(p0 < max /\ Ch(str, p0) = "(") THEN NoInline
    ELSE LET p1    == skip_spaces(str, p0 + 1, max)
             res   == parse_link_destination(str, p1, max)
             cand  == normalize_link(res.str)
             valid == res.ok /\ validate_link(cand)
             p2    == IF valid THEN res.pos ELSE p1
             p3    == IF res.ok THEN skip_spaces(str, p2, max) ELSE p2
             tres  == IF res.ok THEN parse_link_title(str, p3, max) ELSE NoFragment
             p4    == IF tres.ok THEN skip_spaces(str, tres.pos, max) ELSE p3
         IN IF p4 < max /\ Ch(str, p4) = ")"
            THEN [ok |-> TRUE,
                  href |-> IF valid THEN Some(cand) ELSE None,
                  title |-> IF tres.ok THEN Some(tres.str) ELSE None,
                  end |-> p4 + 1]
            ELSE NoInline

\* the mutant of link_commit: the entry is read and left in the cache
link_commit_keeping(s, inl) ==
    LET f    == Top(s)
        lpos == f.start + f.offset
        e    == s.cache[lpos]
    IN IF e.tag # "some" THEN Panic(s)
       ELSE rule_some([s EXCEPT !.removals[lpos] = @ + 1],
                      "inline", None,
                      Result(e.nodes, inl.href, inl.title, inl.end))

\* the commit of the inline form: the label's cache entry is removed and
\* unwrapped twice
link_commit(s, inl) ==
    LET f    == Top(s)
        lpos == f.start + f.offset
        e    == s.cache[lpos]
    IN IF e.tag # "some" THEN Panic(s)
       ELSE rule_some([s EXCEPT !.cache[lpos] = AbsentEntry,
                                !.removals[lpos] = @ + 1],
                      "inline", None,
                      Result(e.nodes, inl.href, inl.title, inl.end))

\* the mutant of link_reference: the first label is always the lookup label
link_reference_first(s, x) ==
    LET f        == Top(s)
        lpos     == f.start + f.offset
        pos2     == IF x # None THEN x[1] + 1 ELSE f.label_end + 1
        label    == Slice(src, lpos + 1, f.label_end)
        hits     == {r \in refs.defs : r.key = ReferenceMapKey(label)}
        e        == s.cache[lpos]
        s1       == [s EXCEPT !.cache[lpos] = AbsentEntry,
                              !.removals[lpos] = @ + 1]
    IN IF ~refs.present THEN rule_none(s, "miss", x)
       ELSE IF e.tag = "absent" THEN Panic(s)
       ELSE IF hits = {} THEN rule_none(s1, "miss", x)
       ELSE IF e.tag # "some" THEN Panic(s1)
       ELSE LET r == CHOOSE r \in hits : TRUE
            IN rule_some(s1, "ref", x,
                         Result(e.nodes, Some(r.destination), r.title, pos2))

\* the mutant of link_reference: pos is not reset to label_end + 1
link_reference_noreset(s, x) ==
    LET f        == Top(s)
        lpos     == f.start + f.offset
        p        == f.label_end + 1
        pos2     == IF x # None THEN x[1] + 1
                    ELSE IF p < pos_max /\ Ch(src, p) = "(" THEN p + 1 ELSE p
        label    == IF x = None \/ x[1] = p + 1
                    THEN Slice(src, lpos + 1, f.label_end)
                    ELSE Slice(src, p + 1, x[1])
        hits     == {r \in refs.defs : r.key = ReferenceMapKey(label)}
        e        == s.cache[lpos]
        s1       == [s EXCEPT !.cache[lpos] = AbsentEntry,
                              !.removals[lpos] = @ + 1]
    IN IF ~refs.present THEN rule_none(s, "miss", x)
       ELSE IF e.tag = "absent" THEN Panic(s)
       ELSE IF hits = {} THEN rule_none(s1, "miss", x)
       ELSE IF e.tag # "some" THEN Panic(s1)
       ELSE LET r == CHOOSE r \in hits : TRUE
            IN rule_some(s1, "ref", x,
                         Result(e.nodes, Some(r.destination), r.title, pos2))

\* the reference form once the second label was probed: x is the probe's
\* result (None too when no '[' follows the first label)
link_reference(s, x) ==
    LET f        == Top(s)
        lpos     == f.start + f.offset
        p        == f.label_end + 1
        pos2     == IF x # None THEN x[1] + 1 ELSE p
        \* matches!(maybe_label, None | Some(""))
        label    == IF x = None \/ x[1] = p + 1
                    THEN Slice(src, lpos + 1, f.label_end)
                    ELSE Slice(src, p + 1, x[1])
        hits     == {r \in refs.defs : r.key = ReferenceMapKey(label)}
        e        == s.cache[lpos]
        s1       == [s EXCEPT !.cache[lpos] = AbsentEntry,
                              !.removals[lpos] = @ + 1]
    IN IF ~refs.present THEN rule_none(s, "miss", x)
       ELSE IF e.tag = "absent" THEN Panic(s)
       ELSE IF hits = {} THEN rule_none(s1, "miss", x)
       ELSE IF e.tag # "some" THEN Panic(s1)
       ELSE LET r == CHOOSE r \in hits : TRUE
            IN rule_some(s1, "ref", x,
                         Result(e.nodes, Some(r.destination), r.title, pos2))

\* parse_link from the return of the first parse_link_label on
link_after_label1(s) ==
    IF s.ret.val = None
    THEN rule_none([s EXCEPT !.ret = NoRet], "nolabel", None)
    ELSE LET label_end == s.ret.val[1]
             s1  == [SetTop(s, [Top(s) EXCEPT !.label_end = label_end,
                                              !.phase = "label2"])
                        EXCEPT !.ret = NoRet]
             inl == inline_form(src, label_end, pos_max)
             p   == label_end + 1
         IN IF inl.ok THEN link_commit(s1, inl)
            ELSE IF p < pos_max /\ Ch(src, p) = "["
            THEN LET s2 == parse_link_label(s1, p, FALSE)
                 IN IF s2.ret.kind = "label"
                    THEN link_reference([s2 EXCEPT !.ret = NoRet], s2.ret.val)
                    ELSE s2
            ELSE link_reference(s1, None)

\* parse_link from the return of the second label's probe on
link_after_label2(s) == link_reference([s EXCEPT !.ret = NoRet], s.ret.val)

\* rule: the call of parse_link, up to its first parse_link_label; the frame
\* remembers start = state.pos and, in oldroot, the children at the call
rule(s, en, offset) ==
    parse_link_label([s EXCEPT !.stack =
                          Append(@, [LinkFrame(s.pos, offset, en)
                                        EXCEPT !.oldroot = s.node])],
                     s.pos + offset, en)

\* ------------------------------------------------------------------------
\* The inline tokenizer (parser::inline): tokenize and tokenize_one
\* ------------------------------------------------------------------------

\* the fallback rule: one character of text, merged into the text node
\* that ends the children
text_fallback(s) ==
    LET c == Ch(src, s.pos)
        n == Len(s.node)
    IN [s EXCEPT !.node = IF n > 0 /\ s.node[n].kind = "text"
                          THEN [@ EXCEPT ![n].content = @ \o <<c>>,
                                         ![n].end = s.pos + 1]
                          ELSE Append(@, Text(<<c>>, s.pos, s.pos + 1)),
                 !.pos = @ + 1]

\* AutolinkScanner::run when get_link returned Some((len, full_url))
autolink_run(s, l) ==
    LET content == normalize_link_text(Slice(src, s.pos + 1, s.pos + l.len - 1))
        inner   == Text(content, s.pos + 1, s.pos + l.len - 1)
        n       == MkNode("autolink", Some(l.url), None, s.pos, s.pos + l.len,
                          <<inner>>, <<>>)
    IN [s EXCEPT !.node = Append(@, n), !.pos = @ + l.len]

\* one step at state.pos: the rules of the marker in registration order
\* ('[' LinkScanner<false>, '!' LinkPrefixScanner<'!', true>, ']'
\* LinkScannerEnd, '<' AutolinkScanner), then the text fallback
tokenize_one(s) ==
    LET c == Ch(src, s.pos) IN
    IF c = "[" THEN rule(s, FALSE, 0)
    ELSE IF c = "!" /\ s.pos + 1 < pos_max /\ Ch(src, s.pos + 1) = "["
    THEN rule(s, TRUE, 1)
    ELSE IF c = "<" /\ get_link(src, s.pos, pos_max).ok
    THEN after_token(autolink_run(s, get_link(src, s.pos, pos_max)), TRUE)
    ELSE after_token(text_fallback(s), FALSE)

\* tokenize_one once the rule it called has returned
token_return(s) ==
    IF s.ret.val # None
    THEN after_token([s EXCEPT !.pos = @ + s.ret.val[1], !.ret = NoRet], TRUE)
    ELSE after_token(text_fallback([s EXCEPT !.ret = NoRet]), FALSE)

\* one turn of the loop of parse_link_label
label_loop(s) ==
    LET f == Top(s) IN
    IF s.pos >= pos_max THEN label_finish(s, FALSE)
    ELSE LET ch    == Ch(src, s.pos)
             level == IF ch = "]" THEN f.level - 1 ELSE f.level
         IN IF ch = "]" /\ level = 0 THEN label_finish(s, TRUE)
            ELSE tokenize_one(SetTop(s, [f EXCEPT !.level = level, !.ch = ch]))

\* ------------------------------------------------------------------------
\* The parts of the state a specification does not use, at rest
\* ------------------------------------------------------------------------

NoCall == [fn |-> "none", str |-> <<>>, start |-> 0, max |-> 0]

IdleFrag == frag_call = NoCall /\ frag_res = NoFragment

\* nothing ran yet; else the rule that was called last, whether its check or
\* its run, the pos it was called at, what check and run returned, the
\* trailing text before the call and as the rule left it, how many bytes it
\* removed from it
NoRule == [rule |-> "none", phase |-> "none", silent |-> FALSE, pos |-> 0,
           check |-> None, run |-> None, before |-> <<>>, trailing |-> <<>>,
           removed |-> 0]

IdleRules == trailing_text = <<>> /\ link_level = 0 /\ last_rule = NoRule

\* ErasedSet::default(), what std::mem::take leaves behind
DefaultEnv == [default |-> TRUE, parses |-> 0]

\* the env of the Root, after n calls of inline.parse were handed it
EnvOf(n) == [default |-> FALSE, parses |-> n]

IdleWalk ==
    /\ tree_in = <<>>
    /\ tree = <<>>
    /\ data_env = DefaultEnv
    /\ walk_env = DefaultEnv
    /\ walk_stack = <<>>
    /\ walk_log = <<>>

IdleNorm == norm_in = <<>> /\ norm_src = <<>> /\ norm_log = <<>>

\* no link is being parsed: the inline_env of an inline scan of src
IdleLinks ==
    /\ refs = [present |-> FALSE, defs |-> {}]
    /\ seen = FALSE
    /\ cache = [i \in 0..Len(src) |-> AbsentEntry]
    /\ stack = <<>>
    /\ ret = NoRet
    /\ scans = [i \in 0..Len(src) |-> 0]
    /\ removals = [i \in 0..Len(src) |-> 0]
    /\ panic = FALSE

\* ------------------------------------------------------------------------
\* The specification
\* ------------------------------------------------------------------------

Init ==
    /\ src \in Inputs
    /\ pos_max = Len(src)
    /\ refs \in RefMaps
    /\ pos = 0
    /\ node = <<>>
    /\ seen = FALSE
    /\ cache = [i \in 0..Len(src) |-> AbsentEntry]
    /\ stack = <<>>
    /\ ret = NoRet
    /\ scans = [i \in 0..Len(src) |-> 0]
    /\ removals = [i \in 0..Len(src) |-> 0]
    /\ panic = FALSE
    /\ pc = "tokenize"
    /\ norm_in = <<>>
    /\ norm_src = <<>>
    /\ norm_log = <<>>
    /\ IdleFrag
    /\ IdleRules
    /\ IdleWalk

\* inline.tokenize: one step of its loop, or its end
Tokenize ==
    /\ ~panic /\ pc = "tokenize" /\ stack = <<>> /\ ret.kind = "none"
    /\ IF pos >= pos_max
       THEN /\ pc' = "done"
            /\ UNCHANGED <<pos, node, seen, cache, stack, ret, scans,
                           removals, panic>>
       ELSE /\ Set(tokenize_one(Cur))
            /\ pc' = pc
    /\ UNCHANGED <<src, pos_max, refs, norm_in, norm_src, norm_log,
                 frag_vars, rule_vars, walk_vars>>

\* a rule has returned to the tokenize_one that called it
TokenReturn ==
    /\ ~panic /\ ret.kind = "rule"
    /\ Set(token_return(Cur))
    /\ UNCHANGED <<src, pos_max, refs, pc, norm_in, norm_src, norm_log,
                 frag_vars, rule_vars, walk_vars>>

\* parse_link_label is in its loop
LabelLoop ==
    /\ ~panic /\ stack # <<>> /\ ret.kind = "none"
    /\ stack[Len(stack)].kind = "label"
    /\ Set(label_loop(Cur))
    /\ UNCHANGED <<src, pos_max, refs, pc, norm_in, norm_src, norm_log,
                 frag_vars, rule_vars, walk_vars>>

\* parse_link has the first label
LinkLabel1 ==
    /\ ~panic /\ stack # <<>> /\ ret.kind = "label"
    /\ stack[Len(stack)].kind = "link"
    /\ stack[Len(stack)].phase = "label1"
    /\ Set(link_after_label1(Cur))
    /\ UNCHANGED <<src, pos_max, refs, pc, norm_in, norm_src, norm_log,
                 frag_vars, rule_vars, walk_vars>>

\* parse_link has the second label
LinkLabel2 ==
    /\ ~panic /\ stack # <<>> /\ ret.kind = "label"
    /\ stack[Len(stack)].kind = "link"
    /\ stack[Len(stack)].phase = "label2"
    /\ Set(link_after_label2(Cur))
    /\ UNCHANGED <<src, pos_max, refs, pc, norm_in, norm_src, norm_log,
                 frag_vars, rule_vars, walk_vars>>

Next == Tokenize \/ TokenReturn \/ LabelLoop \/ LinkLabel1 \/ LinkLabel2

Spec == Init /\ [][Next]_vars

\* the result of the scan
Done == pc = "done"

\* ------------------------------------------------------------------------
\* normalize_text on its own
\* ------------------------------------------------------------------------

\* the longest text handed to normalize_text
MaxNormLen == 4

\* how often normalize_text is applied to its own result
MaxNormCalls == 2

NormAlphabet == {"a", "\r", "\n", "NUL", "U+FFFD"}

NormInit ==
    /\ norm_in \in UNION {[1..k -> NormAlphabet] : k \in 0..MaxNormLen}
    /\ norm_src = norm_in
    /\ norm_log = <<>>
    /\ src = <<>>
    /\ pos_max = 0
    /\ refs = [present |-> FALSE, defs |-> {}]
    /\ pos = 0
    /\ node = <<>>
    /\ seen = FALSE
    /\ cache = [i \in 0..0 |-> AbsentEntry]
    /\ stack = <<>>
    /\ ret = NoRet
    /\ scans = [i \in 0..0 |-> 0]
    /\ removals = [i \in 0..0 |-> 0]
    /\ panic = FALSE
    /\ pc = "normalize"
    /\ IdleFrag
    /\ IdleRules
    /\ IdleWalk

\* MarkdownIt::parse: src = normalize_text(src)
Normalize ==
    /\ pc = "normalize"
    /\ Len(norm_log) < MaxNormCalls
    /\ norm_src' = normalize_text(norm_src)
    /\ norm_log' = Append(norm_log, norm_src')
    /\ UNCHANGED <<src, pos_max, refs, pos, node, seen, cache, stack, ret,
                   scans, removals, panic, pc, norm_in, frag_vars,
                   rule_vars, walk_vars>>

SpecNorm == NormInit /\ [][Normalize]_vars

\* ------------------------------------------------------------------------
\* parse_link_destination and parse_link_title on their own
\* ------------------------------------------------------------------------

\* the longest string of the exhaustive part of FragInputs
MaxFragLen == 4

FragAlphabet == {"\"", "(", ")", "\\", "\n", " ", "a"}

\* MaxParenLevel opening parentheses, then as many closing ones
ParensAtCap ==
    [i \in 1..(2 * MaxParenLevel) |-> IF i <= MaxParenLevel THEN "(" ELSE ")"]

\* MaxParenLevel + 1 opening parentheses, then as many closing ones
ParensOverCap ==
    [i \in 1..(2 * MaxParenLevel + 2) |->
        IF i <= MaxParenLevel + 1 THEN "(" ELSE ")"]

\* 'a\'b' c
QuoteTitle == <<"'", "a", "\\", "'", "b", "'", " ", "c">>

\* <a\>b> c
AngleDest == <<"<", "a", "\\", ">", "b", ">", " ", "c">>

FragInputs ==
    {ParensAtCap, ParensOverCap, QuoteTitle, AngleDest}
        \cup UNION {[1..k -> FragAlphabet] : k \in 0..MaxFragLen}

\* the windows str[start..max] of the long inputs are the whole string
FragWindows(s) ==
    IF Len(s) > MaxFragLen + 1
    THEN {<<0, Len(s)>>}
    ELSE {w \in (0..Len(s)) \X (0..Len(s)) : w[1] <= w[2]}

FragInit ==
    /\ \E fn \in {"title", "dest"}, s \in FragInputs :
          \E w \in FragWindows(s) :
             frag_call = [fn |-> fn, str |-> s, start |-> w[1], max |-> w[2]]
    /\ frag_res = NoFragment
    /\ pc = "frag"
    /\ src = <<>>
    /\ pos_max = 0
    /\ pos = 0
    /\ node = <<>>
    /\ IdleLinks
    /\ IdleNorm
    /\ IdleRules
    /\ IdleWalk

\* the call of parse_link_title
FragTitle ==
    /\ pc = "frag"
    /\ frag_call.fn = "title"
    /\ frag_res' = parse_link_title(frag_call.str, frag_call.start, frag_call.max)
    /\ pc' = "frag_done"
    /\ UNCHANGED <<src, pos_max, refs, pos, node, seen, cache, stack, ret,
                   scans, removals, panic, norm_in, norm_src, norm_log,
                   frag_call, rule_vars, walk_vars>>

\* the call of parse_link_destination
FragDest ==
    /\ pc = "frag"
    /\ frag_call.fn = "dest"
    /\ frag_res' = parse_link_destination(frag_call.str, frag_call.start,
                                          frag_call.max)
    /\ pc' = "frag_done"
    /\ UNCHANGED <<src, pos_max, refs, pos, node, seen, cache, stack, ret,
                   scans, removals, panic, norm_in, norm_src, norm_log,
                   frag_call, rule_vars, walk_vars>>

SpecFrag == FragInit /\ [][FragTitle \/ FragDest]_vars

\* ------------------------------------------------------------------------
\* inline_parser.rs: the inline driver
\* ------------------------------------------------------------------------

\* the most nodes below the Root when the driver is called
MaxNodes == 3

\* the most children inline.parse returns for one InlineRoot
MaxParsed == 2

\* an InlineRoot whose content inline.parse turns into n children
InlineRoot(n) == [kind |-> "inline_root", id |-> <<>>, content |-> n,
                  children |-> <<>>]

\* any other node of the block phase
Block(ch) == [kind |-> "block", id |-> <<>>, content |-> 0, children |-> ch]

RECURSIVE Forests(_)
\* the children lists of n nodes in all: the first child has k of them
Forests(n) ==
    IF n = 0 THEN {<<>>}
    ELSE UNION {
           { <<first>> \o rest :
                 first \in {InlineRoot(c) : c \in IF k = 1 THEN 0..MaxParsed ELSE {}}
                              \cup {Block(ch) : ch \in Forests(k - 1)},
                 rest \in Forests(n - k) }
           : k \in 1..n }

RECURSIVE Identify(_, _)
\* every node gets its path from the Root as its id
Identify(ns, path) ==
    [i \in 1..Len(ns) |->
        [ns[i] EXCEPT !.id = Append(path, i),
                      !.children = Identify(ns[i].children, Append(path, i))]]

RECURSIVE Kids(_, _)
\* the children list of the node at a path of 0-based indices
Kids(ns, path) ==
    IF path = <<>> THEN ns
    ELSE Kids(ns[Head(path) + 1].children, Tail(path))

RECURSIVE SetKids(_, _, _)
SetKids(ns, path, new) ==
    IF path = <<>> THEN new
    ELSE [ns EXCEPT ![Head(path) + 1].children = SetKids(@, Tail(path), new)]

\* inline.parse(content, mapping, root, md, env): the children of the root
\* it returns
Parsed(child) ==
    [i \in 1..child.content |->
        [kind |-> "text", id |-> <<"parsed">> \o child.id \o <<i>>,
         content |-> 0, children |-> <<>>]]

\* node.children.splice(idx..idx+1, new)
splice(ns, idx, new) ==
    SubSeq(ns, 1, idx) \o new \o SubSeq(ns, idx + 2, Len(ns))

WalkFrame(path) == [path |-> path, idx |-> 0]

\* what the driver leaves alone: the state of the inline scans
scan_rest == <<src, pos_max, refs, pos, node, seen, cache, stack, ret, scans,
               removals, panic, norm_in, norm_src, norm_log, frag_vars,
               rule_vars>>

WalkInit ==
    /\ tree_in \in {Identify(f, <<>>) : f \in UNION {Forests(n) : n \in 0..MaxNodes}}
    /\ tree = tree_in
    /\ data_env = EnvOf(0)
    /\ walk_env = DefaultEnv
    /\ walk_stack = <<>>
    /\ walk_log = <<>>
    /\ pc = "walk"
    /\ src = <<>>
    /\ pos_max = 0
    /\ pos = 0
    /\ node = <<>>
    /\ IdleLinks
    /\ IdleNorm
    /\ IdleFrag
    /\ IdleRules

\* rule: the env of the Root is taken and walk_recursive is called on it
WalkStart ==
    /\ pc = "walk"
    /\ walk_env' = data_env
    /\ data_env' = DefaultEnv
    /\ walk_stack' = <<WalkFrame(<<>>)>>
    /\ pc' = "walking"
    /\ UNCHANGED <<tree_in, tree, walk_log, scan_rest>>

\* the mutant of walk_child: idx moves by one after the splice
walk_child_by_one(fr, child, kids) ==
    IF child.kind = "inline_root"
    THEN [tree  |-> SetKids(tree, fr.path, splice(kids, fr.idx, Parsed(child))),
          stack |-> [walk_stack EXCEPT ![Len(walk_stack)].idx = @ + 1],
          env   |-> EnvOf(walk_env.parses + 1),
          how   |-> "parsed"]
    ELSE [tree  |-> tree,
          stack |-> Append(walk_stack, WalkFrame(Append(fr.path, fr.idx))),
          env   |-> walk_env,
          how   |-> "walked"]

\* the body of the while loop for the child at idx: an InlineRoot is parsed
\* and replaced by the children of the result, idx moving past them; any
\* other child is walked
walk_child(fr, child, kids) ==
    IF child.kind = "inline_root"
    THEN [tree  |-> SetKids(tree, fr.path, splice(kids, fr.idx, Parsed(child))),
          stack |-> [walk_stack EXCEPT ![Len(walk_stack)].idx =
                                            @ + Len(Parsed(child))],
          env   |-> EnvOf(walk_env.parses + 1),
          how   |-> "parsed"]
    ELSE [tree  |-> tree,
          stack |-> Append(walk_stack, WalkFrame(Append(fr.path, fr.idx))),
          env   |-> walk_env,
          how   |-> "walked"]

\* walk_recursive: one turn of the loop
WalkStep ==
    /\ pc = "walking"
    /\ walk_stack # <<>>
    /\ LET fr   == walk_stack[Len(walk_stack)]
           kids == Kids(tree, fr.path)
       IN /\ fr.idx < Len(kids)
          /\ LET child == kids[fr.idx + 1]
                 r     == walk_child(fr, child, kids)
             IN /\ tree' = r.tree
                /\ walk_stack' = r.stack
                /\ walk_env' = r.env
                /\ walk_log' = Append(walk_log, [id |-> child.id, how |-> r.how])
    /\ UNCHANGED <<tree_in, data_env, pc, scan_rest>>

\* walk_recursive returns to the walk_recursive that called it
WalkReturn ==
    /\ pc = "walking"
    /\ Len(walk_stack) > 1
    /\ LET fr == walk_stack[Len(walk_stack)]
       IN fr.idx >= Len(Kids(tree, fr.path))
    /\ walk_stack' = [SubSeq(walk_stack, 1, Len(walk_stack) - 1)
                         EXCEPT ![Len(walk_stack) - 1].idx = @ + 1]
    /\ UNCHANGED <<tree_in, tree, data_env, walk_env, walk_log, pc, scan_rest>>

\* walk_recursive returns to rule: the env is put back
WalkEnd ==
    /\ pc = "walking"
    /\ Len(walk_stack) = 1
    /\ walk_stack[1].idx >= Len(tree)
    /\ walk_stack' = <<>>
    /\ data_env' = walk_env
    /\ pc' = "walk_done"
    /\ UNCHANGED <<tree_in, tree, walk_env, walk_log, scan_rest>>

WalkNext == WalkStart \/ WalkStep \/ WalkReturn \/ WalkEnd

\* rule runs to its end once it is called
SpecWalk == WalkInit /\ [][WalkNext]_vars /\ WF_vars(WalkNext)

\* ------------------------------------------------------------------------
\* entity.rs, html_inline.rs, newline.rs: the rules of one step
\* ------------------------------------------------------------------------

RECURSIVE RunOf(_, _, _)
\* how many characters of the set follow each other in s from offset p on
RunOf(s, p, set) ==
    IF p < Len(s) /\ Ch(s, p) \in set THEN 1 + RunOf(s, p + 1, set) ELSE 0

DecimalLimit == 7

HexLimit == 6

NameLimit == 31

\* (?i)^&#((?:x[a-f0-9]{1,6}|[0-9]{1,7})); on s from offset p on: the length
\* of the match, or 0
DIGITAL_RE(s, p) ==
    IF ~(p + 2 < Len(s) /\ Ch(s, p) = "&" /\ Ch(s, p + 1) = "#") THEN 0
    ELSE IF Ch(s, p + 2) \in {"x", "X"}
    THEN LET k == RunOf(s, p + 3, HexDigits)
         IN IF k \in 1..HexLimit /\ p + 3 + k < Len(s) /\ Ch(s, p + 3 + k) = ";"
            THEN k + 4 ELSE 0
    ELSE LET k == RunOf(s, p + 2, Digits)
         IN IF k \in 1..DecimalLimit /\ p + 2 + k < Len(s) /\ Ch(s, p + 2 + k) = ";"
            THEN k + 3 ELSE 0

\* (?i)^&([a-z][a-z0-9]{1,31}); on s from offset p on: the length of the
\* match, or 0
NAMED_RE(s, p) ==
    IF ~(p + 1 < Len(s) /\ Ch(s, p) = "&" /\ IsLetter(Ch(s, p + 1))) THEN 0
    ELSE LET k == RunOf(s, p + 1, {c \in Range(s) : IsAlnum(c)})
         IN IF k \in 2..(NameLimit + 1) /\ p + 1 + k < Len(s) /\ Ch(s, p + 1 + k) = ";"
            THEN k + 2 ELSE 0

\* the named references get_entity_from_str knows, among those the inputs spell
KnownEntities == { <<"&", "a", "m", "p", ";">> }

get_entity_from_str(name) ==
    IF name \in KnownEntities THEN Some(<<"&">>) ELSE None

\* EntityScanner::check
entity_check(s, p, max) ==
    IF Ch(s, p) # "&" THEN None
    ELSE LET n == IF p + 1 < max /\ Ch(s, p + 1) = "#"
                  THEN DIGITAL_RE(s, p) ELSE NAMED_RE(s, p)
         IN IF n = 0 THEN None ELSE Some(n)

\* parse_digital_entity: the length consumed, with the node pushed; the
\* content is the character of the code, named by the digits
parse_digital_entity(s, p) ==
    LET n == DIGITAL_RE(s, p) IN
    IF n = 0 THEN [val |-> None, nodes |-> <<>>]
    ELSE [val   |-> Some(n),
          nodes |-> <<MkNode("text_special", None, None, p, p + n, <<>>,
                             <<"char">> \o Slice(s, p + 2, p + n - 1))>>]

\* parse_named_entity
parse_named_entity(s, p) ==
    LET n == NAMED_RE(s, p) IN
    IF n = 0 THEN [val |-> None, nodes |-> <<>>]
    ELSE LET str == get_entity_from_str(Slice(s, p, p + n))
         IN IF str = None THEN [val |-> None, nodes |-> <<>>]
            ELSE [val   |-> Some(n),
                  nodes |-> <<MkNode("text_special", None, None, p, p + n,
                                     <<>>, str[1])>>]

\* EntityScanner::run
entity_run(s, p, max) ==
    IF Ch(s, p) # "&" THEN [val |-> None, nodes |-> <<>>]
    ELSE IF p + 1 < max /\ Ch(s, p + 1) = "#"
    THEN parse_digital_entity(s, p)
    ELSE parse_named_entity(s, p)

\* HTML_TAG_RE on src[p..max], for the tags without attributes: an open tag
\* <name>, <name/> or a closing tag </name>, spaces allowed before the end;
\* the length of the match, or 0
HTML_TAG_RE(s, p, max) ==
    LET w     == SubSeq(s, 1, max)
        close == p + 1 < max /\ Ch(s, p + 1) = "/"
        n0    == IF close THEN p + 2 ELSE p + 1
        k     == RunOf(w, n0, {c \in Range(w) : IsAlnum(c) \/ c = "-"})
        sp    == RunOf(w, n0 + k, {" ", "\t", "\n"})
        e     == n0 + k + sp
    IN IF ~(n0 < max /\ IsLetter(Ch(s, n0))) THEN 0
       ELSE IF e < max /\ Ch(s, e) = ">" THEN e + 1 - p
       ELSE IF ~close /\ e + 1 < max /\ Ch(s, e) = "/" /\ Ch(s, e + 1) = ">"
       THEN e + 2 - p
       ELSE 0

\* (?i)^<a[>\s]
HTML_LINK_OPEN(content) ==
    /\ Len(content) >= 3
    /\ ToLower(content[2]) = "a"
    /\ content[3] \in {">", " ", "\t", "\n"}

\* (?i)^</a\s*>
HTML_LINK_CLOSE(content) ==
    /\ Len(content) >= 4
    /\ content[2] = "/"
    /\ ToLower(content[3]) = "a"
    /\ content[4 + RunOf(content, 3, {" ", "\t", "\n"})] = ">"

\* HtmlInlineScanner::check
html_check(s, p, max) ==
    IF Ch(s, p) # "<" THEN None
    ELSE IF ~(p + 1 < max /\ (Ch(s, p + 1) \in {"!", "?", "/"} \/ IsLetter(Ch(s, p + 1))))
    THEN None
    ELSE LET n == HTML_TAG_RE(s, p, max)
         IN IF n = 0 THEN None ELSE Some(n)

\* HtmlInlineScanner::run: the length, the node and the change of link_level
html_run(s, p, max) ==
    LET c == html_check(s, p, max) IN
    IF c = None THEN [val |-> None, nodes |-> <<>>, level |-> 0]
    ELSE LET content == Slice(s, p, p + c[1])
         IN [val   |-> c,
             nodes |-> <<MkNode("html_inline", None, None, p, p + c[1], <<>>,
                                content)>>,
             level |-> IF HTML_LINK_OPEN(content) THEN 1
                       ELSE IF HTML_LINK_CLOSE(content) THEN -1 ELSE 0]

\* AutolinkScanner::check
autolink_check(s, p, max) ==
    LET l == get_link(s, p, max) IN IF l.ok THEN Some(l.len) ELSE None

\* how many spaces end the text
RECURSIVE tail_spaces(_)
tail_spaces(txt) ==
    IF txt # <<>> /\ txt[Len(txt)] = " "
    THEN 1 + tail_spaces(SubSeq(txt, 1, Len(txt) - 1))
    ELSE 0

\* state.trailing_text_pop(n): the last n bytes leave the trailing text and
\* the text node that holds them
trailing_text_pop(ns, n) ==
    LET k == Len(ns) IN
    IF n = 0 \/ k = 0 \/ ns[k].kind # "text" THEN ns
    ELSE IF Len(ns[k].content) <= n THEN SubSeq(ns, 1, k - 1)
    ELSE [ns EXCEPT ![k].content = SubSeq(@, 1, Len(@) - n),
                    ![k].end = @ - n]

\* the mutant of newline_rule: one trailing space makes a Hardbreak
newline_rule_one_space(s, p, max, tt, ns, silent) ==
    LET np        == p + 1 + RunOf(SubSeq(s, 1, max), p + 1, {" ", "\t"})
        tail_size == tail_spaces(tt)
        brk       == MkNode(IF tail_size >= 1 THEN "hardbreak" ELSE "softbreak",
                            None, None, p - tail_size, np, <<>>, <<>>)
    IN IF Ch(s, p) # "\n"
       THEN [ok |-> FALSE, pos |-> p, node |-> ns, trailing |-> tt, removed |-> 0]
       ELSE IF silent
       THEN [ok |-> TRUE, pos |-> np, node |-> ns, trailing |-> tt, removed |-> 0]
       ELSE [ok       |-> TRUE,
             pos      |-> np,
             node     |-> Append(trailing_text_pop(ns, tail_size), brk),
             trailing |-> SubSeq(tt, 1, Len(tt) - tail_size),
             removed  |-> tail_size]

\* newline.rs rule: what it returns and how it leaves pos, the children and
\* the trailing text
newline_rule(s, p, max, tt, ns, silent) ==
    LET np        == p + 1 + RunOf(SubSeq(s, 1, max), p + 1, {" ", "\t"})
        tail_size == tail_spaces(tt)
        brk       == MkNode(IF tail_size >= 2 THEN "hardbreak" ELSE "softbreak",
                            None, None, p - tail_size, np, <<>>, <<>>)
    IN IF Ch(s, p) # "\n"
       THEN [ok |-> FALSE, pos |-> p, node |-> ns, trailing |-> tt, removed |-> 0]
       ELSE IF silent
       THEN [ok |-> TRUE, pos |-> np, node |-> ns, trailing |-> tt, removed |-> 0]
       ELSE [ok       |-> TRUE,
             pos      |-> np,
             node     |-> Append(trailing_text_pop(ns, tail_size), brk),
             trailing |-> SubSeq(tt, 1, Len(tt) - tail_size),
             removed  |-> tail_size]

\* the longest input of the exhaustive part of RuleInputs
MaxRuleLen == 3

RuleAlphabet == {"&", "#", "1", ";", "<", "a", ">", "/", "\n", " "}

\* &#1;
EntityDecimal == <<"&", "#", "1", ";">>

\* &#x1a;
EntityHex == <<"&", "#", "x", "1", "a", ";">>

\* &aa; is no entity
EntityUnknown == <<"&", "a", "a", ";">>

\* a&amp;a
EntityAmp == <<"a", "&", "a", "m", "p", ";", "a">>

\* </a>a
TagClose == <<"<", "/", "a", ">", "a">>

\* <a >a</a>
TagPair == <<"<", "a", " ", ">", "a", "<", "/", "a", ">">>

\* two spaces before the newline, spaces and a tab after it
BreakHard == <<"a", " ", " ", "\n", " ", "\t", "a">>

RuleInputs ==
    {EntityDecimal, EntityHex, EntityUnknown, EntityAmp, TagClose, TagPair,
     BreakHard, AutolinkOk, AutolinkBad}
        \cup UNION {[1..k -> RuleAlphabet] : k \in 1..MaxRuleLen}

RulesInit ==
    /\ src \in RuleInputs
    /\ pos_max \in 1..Len(src)
    /\ pos = 0
    /\ node = <<>>
    /\ trailing_text = <<>>
    /\ link_level = 0
    /\ last_rule = NoRule
    /\ pc = "rules"
    /\ IdleLinks
    /\ IdleNorm
    /\ IdleFrag
    /\ IdleWalk

\* what a step of the rules leaves alone
rules_rest == <<refs, seen, cache, stack, ret, scans, removals, panic, pc,
                norm_in, norm_src, norm_log, frag_vars, walk_vars>>

\* a rule may be called: the scan is inside its window and no check waits
\* for its run
CanCall == pc = "rules" /\ pos < pos_max /\ last_rule.phase # "checked"

\* what last_rule holds after check of rule r returned c
Checked(r, c) ==
    [NoRule EXCEPT !.rule = r, !.phase = "checked", !.pos = pos, !.check = c,
                   !.before = trailing_text, !.trailing = trailing_text]

\* what last_rule holds after run of the rule that was checked returned res
Ran(res) ==
    [last_rule EXCEPT !.phase = "ran", !.run = res.val,
                      !.trailing = trailing_text]

\* run of rule r may be called: its check was called on this state
CanRun(r) == pc = "rules" /\ last_rule.phase = "checked" /\ last_rule.rule = r

\* the tokenizer after a run: on Some(n) it moves pos by n
pos_after(res) == IF res.val = None THEN pos ELSE pos + res.val[1]

\* the tokenizer after a run: a node that is no text clears the trailing text
trailing_after(res) == IF res.val = None THEN trailing_text ELSE <<>>

AutolinkCheck ==
    /\ CanCall
    /\ last_rule' = Checked("autolink", autolink_check(src, pos, pos_max))
    /\ UNCHANGED <<src, pos_max, pos, node, trailing_text, link_level, rules_rest>>

AutolinkRun ==
    /\ CanRun("autolink")
    /\ LET l == get_link(src, pos, pos_max)
           res == IF l.ok
                  THEN [val |-> Some(l.len),
                        nodes |-> autolink_run([node |-> <<>>, pos |-> pos], l).node]
                  ELSE [val |-> None, nodes |-> <<>>]
       IN /\ node' = node \o res.nodes
          /\ pos' = pos_after(res)
          /\ trailing_text' = trailing_after(res)
          /\ last_rule' = Ran(res)
    /\ UNCHANGED <<src, pos_max, link_level, rules_rest>>

EntityCheck ==
    /\ CanCall
    /\ last_rule' = Checked("entity", entity_check(src, pos, pos_max))
    /\ UNCHANGED <<src, pos_max, pos, node, trailing_text, link_level, rules_rest>>

EntityRun ==
    /\ CanRun("entity")
    /\ LET res == entity_run(src, pos, pos_max)
       IN /\ node' = node \o res.nodes
          /\ pos' = pos_after(res)
          /\ trailing_text' = trailing_after(res)
          /\ last_rule' = Ran(res)
    /\ UNCHANGED <<src, pos_max, link_level, rules_rest>>

HtmlCheck ==
    /\ CanCall
    /\ last_rule' = Checked("html_inline", html_check(src, pos, pos_max))
    /\ UNCHANGED <<src, pos_max, pos, node, trailing_text, link_level, rules_rest>>

HtmlRun ==
    /\ CanRun("html_inline")
    /\ LET res == html_run(src, pos, pos_max)
       IN /\ node' = node \o res.nodes
          /\ pos' = pos_after(res)
          /\ trailing_text' = trailing_after(res)
          /\ link_level' = link_level + res.level
          /\ last_rule' = Ran(res)
    /\ UNCHANGED <<src, pos_max, rules_rest>>

\* the newline rule is called, silent or not; it moves pos itself, and the
\* tokenizer clears the trailing text after the node it pushed
Newline ==
    /\ CanCall
    /\ \E silent \in BOOLEAN :
          LET r == newline_rule(src, pos, pos_max, trailing_text, node, silent)
          IN /\ pos' = r.pos
             /\ node' = r.node
             /\ trailing_text' = IF r.ok /\ ~silent THEN <<>> ELSE r.trailing
             /\ last_rule' = [NoRule EXCEPT !.rule = "newline", !.phase = "ran",
                                            !.silent = silent, !.pos = pos,
                                            !.run = IF r.ok THEN Some(r.pos - pos)
                                                    ELSE None,
                                            !.before = trailing_text,
                                            !.trailing = r.trailing,
                                            !.removed = r.removed]
    /\ UNCHANGED <<src, pos_max, link_level, rules_rest>>

\* no rule matched: the character is text
TextStep ==
    /\ CanCall
    /\ LET s == text_fallback([node |-> node, pos |-> pos])
       IN /\ node' = s.node
          /\ pos' = s.pos
    /\ trailing_text' = Append(trailing_text, Ch(src, pos))
    /\ last_rule' = [NoRule EXCEPT !.rule = "text", !.phase = "ran", !.pos = pos]
    /\ UNCHANGED <<src, pos_max, link_level, rules_rest>>

RulesNext ==
    \/ AutolinkCheck \/ AutolinkRun
    \/ EntityCheck \/ EntityRun
    \/ HtmlCheck \/ HtmlRun
    \/ Newline
    \/ TextStep

SpecRules == RulesInit /\ [][RulesNext]_vars

\* ------------------------------------------------------------------------
\* Claims
\* ------------------------------------------------------------------------

RECURSIVE ContainsLink(_)
\* some node of the list, or a descendant of one, is a Link
ContainsLink(ns) ==
    \E i \in 1..Len(ns) : ns[i].kind = "link" \/ ContainsLink(ns[i].children)

RECURSIVE LinksUnnested(_)
\* no Link of the list or below it has a Link among its descendants
LinksUnnested(ns) ==
    \A i \in 1..Len(ns) :
        /\ ns[i].kind = "link" => ~ContainsLink(ns[i].children)
        /\ LinksUnnested(ns[i].children)

\* every children list the scan holds: the output, the saved outputs of the
\* probes in progress, the cache, the result just returned
NodeLists ==
    {node, ret.res.nodes}
        \cup {stack[i].oldroot : i \in 1..Len(stack)}
        \cup {cache[k].nodes : k \in DOMAIN cache}

InLabelLoop == stack # <<>> /\ stack[Len(stack)].kind = "label"

\* C1: links never nest.  No Link node has a Link among its descendants, in
\* the output, in the cache and in every probe's saved output, also when the
\* inner link sits in an image label; a label scanned with enable_nested =
\* false never goes on with its loop while SeenLinks is set; and when a rule
\* returns into such a loop with SeenLinks set, the label scan ends at once,
\* returns None and caches None for its offset.
C1_LinksNeverNest ==
    /\ [](\A ns \in NodeLists : LinksUnnested(ns))
    /\ [](InLabelLoop /\ ~stack[Len(stack)].en /\ ret.kind = "none" => ~seen)
    /\ [][InLabelLoop /\ ~stack[Len(stack)].en /\ ret.kind = "rule" /\ seen
            => /\ stack' = Pop(stack)
               /\ ret' = LabelRet(None)
               /\ cache'[stack[Len(stack)].start] = NoneEntry]_vars

\* C1 witness: the scan of a link label at offset 0 was given up and the
\* output holds an image whose label holds a link
C1_Witness ==
    /\ Done
    /\ src = ImageInLink
    /\ cache[0] = NoneEntry
    /\ \E i \in 1..Len(node) :
          node[i].kind = "image" /\ ContainsLink(node[i].children)

\* the node the claim's table expects for [a [b](c) d](e)
C2_OuterLink ==
    /\ Len(node) = 1
    /\ node[1].kind = "link"
    /\ node[1].href = Some(<<"e">>)
    /\ node[1].start = 0
    /\ node[1].end = Len(src)
    /\ ~ContainsLink(node[1].children)

\* C2 as stated: [a [b](c) d](e) yields one outer Link with href "e" over the
\* whole input, the inner [b](c) being text of its label.
C2_Original == Done /\ src = NestedInLink => C2_OuterLink

\* C2 as amended: [a [b](c) d](e) yields the text "[a ", the inner Link with
\* href "c" and child text "b" over offsets 3..9, and the text " d](e)"; no
\* outer link is produced.
C2_InnerLinkWins ==
    Done /\ src = NestedInLink =>
        node = << Text(<<"[", "a", " ">>, 0, 3),
                  MkNode("link", Some(<<"c">>), None, 3, 9,
                         <<Text(<<"b">>, 4, 5)>>, <<>>),
                  Text(<<" ", "d", "]", "(", "e", ")">>, 9, 15) >>

\* C2 witness: the scan of [a [b](c) d](e) has ended
C2_Witness == Done /\ src = NestedInLink /\ Len(node) = 3

\* a rule has just returned and parse_link had found its first label
LinkResolved == ret.kind = "rule" /\ ret.form # "nolabel"

\* the offset after the first label's ']'
AfterLabel == ret.label_end + 1

\* the label text the reference form looks up, as the claim states it: the
\* second label's text when a second label follows and is not empty, else
\* the first label's source text
LookupLabel ==
    IF ret.x # None /\ ret.x[1] > AfterLabel + 1
    THEN Slice(src, AfterLabel + 1, ret.x[1])
    ELSE Slice(src, ret.lpos + 1, ret.label_end)

Defined(label) == {r \in refs.defs : r.key = ReferenceMapKey(label)}

\* a label of letters only, whose parsed children are one text node
PlainLabel ==
    /\ ret.label_end > ret.lpos + 1
    /\ \A i \in (ret.lpos + 1)..(ret.label_end - 1) : IsLetter(Ch(src, i))

\* C3: reference-form resolution.  When there is a reference map and the
\* inline form did not commit, the lookup label is the second label's text
\* if a second label follows and is not empty, else the first label's
\* source text; on a hit the result has the reference's destination and
\* title, the first label's children, and ends just past the second label
\* (full, collapsed) or just past the first (shortcut); on a miss it is None.
\* Without a reference map the reference form yields None.
C3_ReferenceForm ==
    LinkResolved /\ ret.form # "inline" =>
        /\ ret.x # None => /\ Ch(src, AfterLabel) = "["
                           /\ Ch(src, ret.x[1]) = "]"
        /\ ~refs.present => ret.form = "miss" /\ ret.val = None
        /\ refs.present /\ Defined(LookupLabel) = {} =>
               ret.form = "miss" /\ ret.val = None
        /\ refs.present /\ Defined(LookupLabel) # {} =>
               /\ ret.form = "ref"
               /\ \E r \in Defined(LookupLabel) :
                     /\ ret.res.href = Some(r.destination)
                     /\ ret.res.title = r.title
               /\ ret.res.end = IF ret.x # None THEN ret.x[1] + 1 ELSE AfterLabel
               /\ ret.val = Some(ret.res.end - pos)
               /\ PlainLabel =>
                     ret.res.nodes =
                         <<Text(Slice(src, ret.lpos + 1, ret.label_end),
                                ret.lpos + 1, ret.label_end)>>
               /\ node[Len(node)].children = ret.res.nodes

\* C3 witness: a full reference [a][b] resolved through its second label,
\* the first label being undefined
C3_Witness ==
    /\ LinkResolved
    /\ ret.form = "ref"
    /\ ret.x # None
    /\ ret.x[1] > AfterLabel + 1
    /\ Defined(Slice(src, ret.lpos + 1, ret.label_end)) = {}
    /\ ret.res.href = Some(RefB.destination)

\* a group "(" letters or slashes ")" follows the label: q is its ')'
SimpleGroup(q) ==
    /\ q > AfterLabel
    /\ q < pos_max
    /\ Ch(src, q) = ")"
    /\ \A i \in (AfterLabel + 1)..(q - 1) : IsLetter(Ch(src, i)) \/ Ch(src, i) = "/"

DestRejected ==
    /\ AfterLabel < pos_max
    /\ Ch(src, AfterLabel) = "("
    /\ LET res == parse_link_destination(
                      src, skip_spaces(src, AfterLabel + 1, pos_max), pos_max)
       IN res.ok /\ ~validate_link(normalize_link(res.str))

\* with the destination skipped, the offset just past the ')' that closes a
\* well-formed rest (optional title, spaces, ')'), or -1
RestEnd ==
    LET res  == parse_link_destination(
                    src, skip_spaces(src, AfterLabel + 1, pos_max), pos_max)
        p3   == skip_spaces(src, res.pos, pos_max)
        tres == parse_link_title(src, p3, pos_max)
        p4   == IF tres.ok THEN skip_spaces(src, tres.pos, pos_max) ELSE p3
    IN IF p4 < pos_max /\ Ch(src, p4) = ")" THEN p4 + 1 ELSE -1

\* C5 as stated: a rejected destination with a well-formed rest still gives
\* the inline form, with href unset and end just past the ')'.
C5_Original ==
    LinkResolved /\ DestRejected /\ RestEnd >= 0 =>
        /\ ret.form = "inline"
        /\ ret.res.href = None
        /\ ret.res.end = RestEnd

\* C5 as amended: with the default validator a rejected destination keeps
\* the inline form from committing: pos stays at the destination, no ')' is
\* found there, and parse_link goes on to the reference form, whose result
\* is None or a reference link ending just past the label.  An inline-form
\* result always carries an href, one that validate_link accepted.
C5_RejectedFallsThrough ==
    LinkResolved =>
        /\ DestRejected =>
               /\ ret.form \in {"ref", "miss"}
               /\ ret.form = "miss" => ret.val = None
               /\ ret.form = "ref" =>
                      /\ ret.res.end = AfterLabel
                      /\ \E r \in refs.defs : ret.res.href = Some(r.destination)
        /\ ret.form = "inline" =>
               /\ ret.res.href # None
               /\ validate_link(ret.res.href[1])

\* C5 witness: a rejected destination with a well-formed rest, resolved as a
\* shortcut reference
C5_Witness ==
    /\ LinkResolved
    /\ DestRejected
    /\ RestEnd >= 0
    /\ ret.form = "ref"

RECURSIVE HrefsValid(_)
\* every href (and autolink url) of the list and below it passes validate_link
HrefsValid(ns) ==
    \A i \in 1..Len(ns) :
        /\ ns[i].href # None => validate_link(ns[i].href[1])
        /\ HrefsValid(ns[i].children)

RECURSIVE ContainsAutolink(_)
ContainsAutolink(ns) ==
    \E i \in 1..Len(ns) :
        ns[i].kind = "autolink" \/ ContainsAutolink(ns[i].children)

\* C6: validate_link is a gatekeeper.  Every href or url attached to a node
\* passes validate_link; the href of an inline-form result is None or the
\* normalized destination, accepted by validate_link; and an autolink whose
\* normalized url is rejected is not matched (no Autolink node, the '<'
\* becomes text).
C6_Gatekeeper ==
    /\ \A ns \in NodeLists : HrefsValid(ns)
    /\ LinkResolved /\ ret.form = "inline" =>
           \/ ret.res.href = None
           \/ LET res == parse_link_destination(
                             src, skip_spaces(src, AfterLabel + 1, pos_max), pos_max)
              IN /\ res.ok
                 /\ ret.res.href = Some(normalize_link(res.str))
                 /\ validate_link(ret.res.href[1])
    /\ Done /\ src = AutolinkBad => node = <<Text(src, 0, Len(src))>>

\* C6 witness: the scan of <file:c> has ended without an Autolink node,
\* while that of <ab:c> ... is reached with one (checked by the formula's
\* first part)
C6_Witness == Done /\ src = AutolinkBad /\ ~ContainsAutolink(node)

\* the rule calls in progress: the depth of the re-entrant nesting
\* rule -> parse_link -> parse_link_label -> tokenize_one -> rule
LinkDepth == Cardinality({i \in 1..Len(stack) : stack[i].kind = "link"})

\* C7: the depth of the re-entrant nesting never exceeds max_nesting.
C7_DepthCapped == LinkDepth <= max_nesting

\* C8 as stated: the loop of parse_link_label runs at most once for any
\* opening-bracket offset.
C8_Original == \A k \in DOMAIN scans : scans[k] <= 1

\* C8 as amended: the loop of parse_link_label starts for an offset only
\* when the cache holds no entry for it, and each scan leaves an entry: an
\* offset is scanned at most once more than parse_link removed its entry
\* (at a commit or a reference lookup), so it can be scanned again after
\* such a removal.
C8_OncePerEntry ==
    \A k \in DOMAIN scans :
        /\ scans[k] <= removals[k] + 1
        /\ cache[k].tag # "absent" => scans[k] >= 1

\* C8 witness: an offset scanned twice, its entry having been removed once
C8_Witness == \E k \in DOMAIN scans : scans[k] = 2 /\ removals[k] = 1

\* a parse_link_label call that ran its loop returns in this step
LabelReturns == InLabelLoop /\ Len(stack') < Len(stack)

\* C9 as stated: SeenLinks is present after a parse_link_label call if and
\* only if it was present before it.
C9_Original ==
    [][LabelReturns => seen' = stack[Len(stack)].oldseenlinks]_vars

\* C9 as amended: after a parse_link_label call SeenLinks is present if and
\* only if it was present before the call or was set when the loop ended (a
\* link rule with enable_nested = false committed inside the probe): the
\* flag is inserted again when it was removed at entry, and a flag inserted
\* inside the probe is left set, not undone.  A call answered by the cache
\* leaves the flag as it is.
C9_SeenLinksKept ==
    [][/\ LabelReturns =>
              seen' = (stack[Len(stack)].oldseenlinks \/ seen)
       /\ ~InLabelLoop /\ ret'.kind = "label" /\ Len(stack') >= Len(stack) =>
              seen' = seen]_vars

\* C9 witness: the probe of the image label of ![a [b](c) d](e) has returned
\* its end with SeenLinks set, nothing having been committed before it
C9_Witness ==
    /\ src = NestedInImage
    /\ ret.kind = "label"
    /\ ret.val # None
    /\ seen
    /\ Len(stack) = 1
    /\ node = <<>>

RECURSIVE Normalized(_, _)
\* the text the claim describes, from offset i on: "\r\n" and a lone '\r'
\* are '\n', '\0' is U+FFFD, every other character is itself
Normalized(s, i) ==
    IF i >= Len(s) THEN <<>>
    ELSE IF Ch(s, i) = "\r"
    THEN <<"\n">> \o Normalized(s, IF i + 1 < Len(s) /\ Ch(s, i + 1) = "\n"
                                   THEN i + 2 ELSE i + 1)
    ELSE IF Ch(s, i) = "NUL" THEN <<"U+FFFD">> \o Normalized(s, i + 1)
    ELSE <<Ch(s, i)>> \o Normalized(s, i + 1)

\* C10: normalize_text is idempotent: applied to its own result it returns
\* that result; its result holds no '\r' and no '\0', is the text with
\* "\r\n" and lone '\r' turned into '\n' and '\0' into U+FFFD, and is the
\* text itself when that holds neither.
C10_NormalizeIdempotent ==
    /\ \A i \in 2..Len(norm_log) : norm_log[i] = norm_log[1]
    /\ Len(norm_log) >= 1 =>
           /\ \A i \in 1..Len(norm_log[1]) : norm_log[1][i] \notin {"\r", "NUL"}
           /\ norm_log[1] = Normalized(norm_in, 0)
           /\ (\A i \in 1..Len(norm_in) : norm_in[i] \notin {"\r", "NUL"})
                  => norm_log[1] = norm_in

\* C10 witness: a text with "\r\n", a lone '\r' and a '\0' was normalized
\* twice
C10_Witness ==
    /\ Len(norm_log) = 2
    /\ norm_in = <<"\r", "\n", "\r", "NUL">>
    /\ norm_log[2] = <<"\n", "\n", "U+FFFD">>

\* the call of a sub-parser has returned Some
FragReturned(fn) == pc = "frag_done" /\ frag_call.fn = fn /\ frag_res.ok

\* the number of '\n' characters of s[a..b]
Newlines(s, a, b) == Cardinality({i \in a..(b - 1) : Ch(s, i) = "\n"})

\* the closing marker of the title that s[a] opens
ClosingMarker(c) == IF c = "(" THEN ")" ELSE c

\* C11: parse_link_title counts newlines.  Whenever it returns Some, lines is
\* the number of '\n' characters of src[start..pos], pos <= max, and
\* src[pos - 1] is the closing marker that matches the opening one.
C11_TitleLines ==
    FragReturned("title") =>
        LET c == frag_call IN
        /\ frag_res.lines = Newlines(c.str, c.start, frag_res.pos)
        /\ frag_res.pos <= c.max
        /\ Ch(c.str, c.start) \in {"\"", "'", "("}
        /\ Ch(c.str, frag_res.pos - 1) = ClosingMarker(Ch(c.str, c.start))

RECURSIVE Escaped(_, _, _)
\* str[i] follows a backslash that is not itself escaped
Escaped(str, start, i) ==
    /\ i > start
    /\ Ch(str, i - 1) = "\\"
    /\ ~Escaped(str, start, i - 1)

\* the unescaped '(' less the unescaped ')' of str[start..i]
ParenDepth(str, start, i) ==
    Cardinality({j \in start..(i - 1) : Ch(str, j) = "(" /\ ~Escaped(str, start, j)})
        - Cardinality({j \in start..(i - 1) : Ch(str, j) = ")" /\ ~Escaped(str, start, j)})

\* the bare form stops at i as the claim states it: the end of the window,
\* a space or control character, or a ')' with no '(' open
ClaimedStop(str, start, i, max) ==
    \/ i = max
    \/ /\ i < max
       /\ \/ IsSpaceOrControl(Ch(str, i))
          \/ Ch(str, i) = ")" /\ ParenDepth(str, start, i) = 0

\* a backslash that escapes nothing: a space or the end of the window follows
BareBackslash(str, i, max) ==
    /\ i < max
    /\ Ch(str, i) = "\\"
    /\ i + 1 >= max \/ Ch(str, i + 1) = " "

\* the bare form stops at i
Stops(str, start, i, max) ==
    \/ i = max
    \/ /\ i < max
       /\ ~Escaped(str, start, i)
       /\ \/ IsSpaceOrControl(Ch(str, i))
          \/ Ch(str, i) = ")" /\ ParenDepth(str, start, i) = 0
          \/ BareBackslash(str, i, max)

\* the first offset the bare form stops at
StopOffset(str, start, max) ==
    CHOOSE i \in start..max :
        /\ Stops(str, start, i, max)
        /\ \A j \in start..(i - 1) : ~Stops(str, start, j, max)

\* more than MaxParenLevel '(' are open somewhere before the stop
TooDeep(str, start, max) ==
    \E i \in start..StopOffset(str, start, max) :
        ParenDepth(str, start, i) > MaxParenLevel

\* the call was of the bare form
BareCall ==
    /\ pc = "frag_done"
    /\ frag_call.fn = "dest"
    /\ ~(frag_call.start < frag_call.max /\ Ch(frag_call.str, frag_call.start) = "<")

\* C12 as stated: the bare form returns None exactly when the depth exceeds
\* 32 or a '(' is still open where the scan stops; otherwise it returns pos
\* with start <= pos <= max, pos = max or src[pos] a space, a control
\* character or a ')' with no '(' open; lines is 0 and str is
\* unescape_all(src[start..pos]).
C12_Original ==
    BareCall =>
        LET c == frag_call
            stop == StopOffset(c.str, c.start, c.max)
        IN /\ ~frag_res.ok <=> \/ TooDeep(c.str, c.start, c.max)
                               \/ ParenDepth(c.str, c.start, stop) # 0
           /\ frag_res.ok =>
                  /\ c.start <= frag_res.pos
                  /\ frag_res.pos <= c.max
                  /\ ClaimedStop(c.str, c.start, frag_res.pos, c.max)
                  /\ frag_res.lines = 0
                  /\ frag_res.str = unescape_all(Slice(c.str, c.start, frag_res.pos))

\* C12 as amended: as stated, and the scan also stops at a backslash that is
\* followed by a space or is the last character of the window; a character
\* that follows an escaping backslash never stops the scan and never counts
\* as a parenthesis.
C12_BareDestination ==
    BareCall =>
        LET c == frag_call
            stop == StopOffset(c.str, c.start, c.max)
        IN /\ ~frag_res.ok <=> \/ TooDeep(c.str, c.start, c.max)
                               \/ ParenDepth(c.str, c.start, stop) # 0
           /\ frag_res.ok =>
                  /\ c.start <= frag_res.pos
                  /\ frag_res.pos <= c.max
                  /\ frag_res.pos = stop
                  /\ \/ ClaimedStop(c.str, c.start, frag_res.pos, c.max)
                     \/ BareBackslash(c.str, frag_res.pos, c.max)
                  /\ frag_res.lines = 0
                  /\ frag_res.str = unescape_all(Slice(c.str, c.start, frag_res.pos))

\* C12 witness: the bare form stopped at a backslash before a space, with a
\* parenthesis pair in front of it
C12_Witness ==
    /\ BareCall
    /\ frag_res.ok
    /\ frag_call.str = <<"(", ")", "\\", " ">>
    /\ frag_call.start = 0
    /\ frag_call.max = 4
    /\ frag_res.pos = 2

RECURSIVE Replaced(_)
\* the list with every InlineRoot replaced, where it stands, by the children
\* inline.parse returns for it, the other nodes kept and treated alike below
Replaced(ns) ==
    IF ns = <<>> THEN <<>>
    ELSE (IF Head(ns).kind = "inline_root" THEN Parsed(Head(ns))
          ELSE <<[Head(ns) EXCEPT !.children = Replaced(@)]>>)
         \o Replaced(Tail(ns))

RECURSIVE Ids(_)
\* the ids of the nodes of the list and below it
Ids(ns) ==
    UNION {{ns[i].id} \cup Ids(ns[i].children) : i \in 1..Len(ns)}

RECURSIVE InlineRoots(_)
\* the ids of the InlineRoot nodes of the list and below it
InlineRoots(ns) ==
    UNION {(IF ns[i].kind = "inline_root" THEN {ns[i].id} ELSE {})
               \cup InlineRoots(ns[i].children) : i \in 1..Len(ns)}

WalkDone == pc = "walk_done"

\* C13: the inline driver replaces every InlineRoot in place.  When rule
\* returns, the tree is the original one with every InlineRoot replaced, at
\* its position, by the children inline.parse returned for it, the other
\* children kept in order and recursed into; every original child was
\* processed exactly once (an InlineRoot parsed, any other node walked), no
\* spliced-in child was walked, and the env taken from the Root at the start
\* is back in it (it is out of the Root while the walk runs); and the walk
\* terminates.
C13_DriverReplaces ==
    /\ [](WalkDone =>
             /\ tree = Replaced(tree_in)
             /\ {walk_log[i].id : i \in 1..Len(walk_log)} = Ids(tree_in)
             /\ Len(walk_log) = Cardinality(Ids(tree_in))
             /\ \A i \in 1..Len(walk_log) :
                    walk_log[i].how = "parsed" <=> walk_log[i].id \in InlineRoots(tree_in)
             /\ InlineRoots(tree) = {}
             /\ walk_stack = <<>>
             /\ data_env = EnvOf(Cardinality(InlineRoots(tree_in))))
    /\ [](pc = "walking" => data_env = DefaultEnv)
    /\ <>WalkDone

\* C13 witness: the walk of a tree has ended where an InlineRoot with two
\* parsed children stood before a block that holds an InlineRoot with none
C13_Witness ==
    /\ WalkDone
    /\ Len(tree_in) = 2
    /\ tree_in[1].kind = "inline_root"
    /\ tree_in[1].content = 2
    /\ tree_in[2].kind = "block"
    /\ Len(tree_in[2].children) = 1
    /\ tree_in[2].children[1].kind = "inline_root"
    /\ tree_in[2].children[1].content = 0
    /\ Len(tree) = 3
    /\ tree[3].children = <<>>


\* a run of one of the rules of a step has just returned Some(n)
RuleSucceeded ==
    /\ pc = "rules"
    /\ last_rule.phase = "ran"
    /\ last_rule.rule \in {"autolink", "entity", "html_inline", "newline"}
    /\ last_rule.run # None

\* C14: a rule called with pos < pos_max <= src.len() that succeeds consuming
\* n has n >= 1 and pos + n <= pos_max, so that pos never passes pos_max,
\* also when pos_max is less than src.len()
C14_CursorInWindow ==
    /\ pc = "rules" => pos <= pos_max /\ pos_max <= Len(src)
    /\ RuleSucceeded =>
          /\ last_rule.run[1] >= 1
          /\ last_rule.pos + last_rule.run[1] <= pos_max


\* parse_link_label has just returned to parse_link, from its cache or from
\* its loop
LabelReturned == ret.kind = "label"

\* pos and the children are those of the call of the rule on top of the stack
AsAtCall ==
    /\ stack # <<>>
    /\ stack[Len(stack)].kind = "link"
    /\ pos = stack[Len(stack)].start
    /\ node = stack[Len(stack)].oldroot

\* a link rule returns in this step
RuleReturns == ret'.kind = "rule" /\ ret.kind # "rule"

\* pos at the call of the rule that returns: the rule was called before this
\* step and its frame is popped, or it is called and returns in this step
CallPos == IF Len(stack') < Len(stack) THEN stack[Len(stack)].start ELSE pos

\* the children at the call of the rule that returns
CallNode == IF Len(stack') < Len(stack) THEN stack[Len(stack)].oldroot ELSE node

\* the loop of parse_link_label ends in this step: the children of the probe
\* go to the cache entry when the label was found, and nowhere when not
ProbeKept ==
    LabelReturns =>
        cache'[stack[Len(stack)].start] =
            IF ret'.val # None THEN SomeEntry(node, pos) ELSE NoneEntry

\* a link rule returns in this step: pos is as at its call, and the children
\* are as at its call (None) or have one node more (Some)
RuleKept ==
    RuleReturns =>
        /\ pos' = CallPos
        /\ (ret'.val = None) => (node' = CallNode)
        /\ (ret'.val # None) =>
              /\ Len(node') = Len(CallNode) + 1
              /\ SubSeq(node', 1, Len(CallNode)) = CallNode

\* C15: parse_link_label restores pos and node on every path (cache hit,
\* found, not found, abort on SeenLinks), the children of the probe being
\* kept in the cache entry only; a link rule that returns None leaves pos and
\* the children as they were at its call, and one that succeeds has appended
\* exactly one node to them.
C15_ProbeRestores ==
    /\ [](LabelReturned => AsAtCall)
    /\ [][ProbeKept /\ RuleKept]_vars

\* C15 witness: the probe of the outer label of [a [b](c) d](e) was aborted
\* on SeenLinks after the inner link, and has returned None to the rule
\* called at offset 0
C15_Witness ==
    /\ src = NestedInLink
    /\ LabelReturned
    /\ ret.val = None
    /\ seen
    /\ Len(stack) = 1
    /\ cache[0].tag = "none"


\* a link rule has just returned Some: it has emitted its node
RuleEmitted == ret.kind = "rule" /\ ret.val # None

\* the entry parse_link removes in this step was Some((children, end))
RemovesSome ==
    \A k \in DOMAIN removals :
        removals'[k] > removals[k] => cache[k].tag = "some"

\* C16: at the commit of the inline form and at the lookup of the reference
\* form the cache holds Some((children, end)) for the offset of the label, so
\* that the unwraps never panic; once a link rule has emitted its node the
\* cache holds no entry for that offset.
C16_CacheAtCommit ==
    /\ [](~panic)
    /\ [](RuleEmitted => cache[ret.lpos] = AbsentEntry)
    /\ [][RemovesSome]_vars

\* C16 witness: a reference link has been emitted for a label whose entry
\* was removed at the lookup
C16_Witness ==
    /\ RuleEmitted
    /\ ret.form = "ref"
    /\ removals[ret.lpos] = 1
    /\ cache[ret.lpos].tag = "absent"
    /\ node # <<>>


RECURSIVE TextOf(_)
\* the text of the text nodes of a list of children, in order
TextOf(ns) ==
    IF ns = <<>> THEN <<>>
    ELSE (IF Head(ns).kind = "text" THEN Head(ns).content ELSE <<>>)
             \o TextOf(Tail(ns))

\* the children that are no text nodes, in order
NonText(ns) == SelectSeq(ns, LAMBDA n : n.kind # "text")

\* how many spaces end the text: the k whose last k characters are spaces,
\* a character that is no space, or nothing, before them
TrailingSpaces(txt) ==
    CHOOSE k \in 0..Len(txt) :
        /\ \A i \in (Len(txt) - k + 1)..Len(txt) : txt[i] = " "
        /\ k = Len(txt) \/ txt[Len(txt) - k] # " "

\* the newline rule is called at a newline in this step
NewlineAtNewline ==
    /\ pc = "rules"
    /\ last_rule'.rule = "newline"
    /\ pos < pos_max
    /\ Ch(src, pos) = "\n"

\* the rule succeeds and pos is past the newline and the spaces and tabs that
\* follow it in the window
NewlineSkips ==
    /\ last_rule'.run # None
    /\ pos' > pos
    /\ pos' <= pos_max
    /\ \A i \in (pos + 1)..(pos' - 1) : Ch(src, i) \in {" ", "\t"}
    /\ pos' = pos_max \/ Ch(src, pos') \notin {" ", "\t"}

\* not silent: the trailing spaces leave the trailing text and the text of
\* the children, and one node follows them, a Hardbreak when two spaces or
\* more were removed, a Softbreak when not, from pos - removed to the new pos
NewlinePushes ==
    LET k   == TrailingSpaces(trailing_text)
        brk == node'[Len(node')]
    IN /\ last_rule'.removed = k
       /\ last_rule'.trailing = SubSeq(trailing_text, 1, Len(trailing_text) - k)
       /\ node' # <<>>
       /\ brk.kind = IF k >= 2 THEN "hardbreak" ELSE "softbreak"
       /\ brk.start = pos - k
       /\ brk.end = pos'
       /\ NonText(node') = Append(NonText(node), brk)
       /\ TextOf(node) = TextOf(node') \o [i \in 1..k |-> " "]

\* C17: at a newline the newline rule always succeeds and moves pos past the
\* newline and the spaces and tabs after it.  When not silent it removes all
\* trailing spaces from the trailing text and pushes exactly one node, a
\* Hardbreak if and only if two or more spaces were removed, a Softbreak
\* otherwise, whose span starts at pos - removed; when silent it pushes no
\* node and leaves the trailing text unchanged.
C17_NewlineRule ==
    [][NewlineAtNewline =>
          /\ NewlineSkips
          /\ IF last_rule'.silent
             THEN node' = node /\ trailing_text' = trailing_text
             ELSE NewlinePushes]_vars

\* C17 witness: on "a  \n \ta" the rule, not silent, has removed two spaces
\* and pushed a Hardbreak from offset 1 to offset 6
C17_Witness ==
    /\ src = BreakHard
    /\ last_rule.rule = "newline"
    /\ ~last_rule.silent
    /\ last_rule.removed = 2
    /\ node # <<>>
    /\ node[Len(node)].kind = "hardbreak"
    /\ node[Len(node)].start = 1
    /\ pos = 6


\* run of AutolinkScanner, EntityScanner or HtmlInlineScanner has returned,
\* on the state its check was called on
ScannerRan ==
    /\ pc = "rules"
    /\ last_rule.phase = "ran"
    /\ last_rule.rule \in {"autolink", "entity", "html_inline"}

\* check of one of the three rules is called in this step
CheckCalled == pc = "rules" /\ last_rule'.phase = "checked"

\* C18: for AutolinkScanner, EntityScanner and HtmlInlineScanner, check leaves
\* the state unchanged and returns Some(n) if and only if run, called on the
\* same state, succeeds consuming n.
C18_CheckRunAgree ==
    /\ [](ScannerRan => last_rule.check = last_rule.run)
    /\ [][CheckCalled =>
              UNCHANGED <<src, pos, pos_max, node, trailing_text, link_level>>]_vars

====
